---- MODULE Spec2Model ----
(***************************************************************************)
(* Rule-based parser of sports queries (src/ai/parser.py): a free-text     *)
(* prompt is turned into a descriptor with the keys team, league, player,  *)
(* season, stat_type, metric, metric_type and chart_type.                  *)
(*                                                                         *)
(* Texts are TLA+ strings, i.e. sequences of characters: Len, SubSeq and   *)
(* \o are the only primitives used on them.                                *)
(***************************************************************************)
EXTENDS Integers, Sequences, FiniteSets, TLC

(***************************************************************************)
(* Bounds of the model.                                                    *)
(***************************************************************************)
\* PERSON entities a recognition model may report for one prompt
MaxEnts == 2
\* hash seeds a process may be started with (PYTHONHASHSEED)
NumHashSeeds == 2
\* in-place changes callers make to the lists they are handed
MaxMutations == 1

(***************************************************************************)
(* Characters and elementary string functions.                             *)
(***************************************************************************)
At(s, i) == SubSeq(s, i, i)

CharsOf(s) == {At(s, i) : i \in 1..Len(s)}

ASCII_LOWER == "abcdefghijklmnopqrstuvwxyz"
ASCII_UPPER == "ABCDEFGHIJKLMNOPQRSTUVWXYZ"
DIGITS == "0123456789"
\* letters outside ASCII that occur in the team registry, with their capitals
OTHER_LOWER == "öüî"
OTHER_UPPER == "ÖÜÎ"
\* the characters in code point order (the order of str comparison)
CODE_POINTS ==
  "\t\n !%&'+,-./" \o DIGITS \o ":;?" \o ASCII_UPPER \o "_" \o ASCII_LOWER
  \o "ÎÖÜîöü"

AllChars == CharsOf(CODE_POINTS)
LowerAZ == CharsOf(ASCII_LOWER)
UpperAZ == CharsOf(ASCII_UPPER)
DigitChars == CharsOf(DIGITS)
\* \s of the re module
SpaceChars == CharsOf(" \t\n")
\* \w of the re module on str patterns: letters, digits and the underscore
WordChars ==
  LowerAZ \cup UpperAZ \cup DigitChars \cup {"_"}
    \cup CharsOf(OTHER_LOWER) \cup CharsOf(OTHER_UPPER)

Min(a, b) == IF a <= b THEN a ELSE b
Max(a, b) == IF a >= b THEN a ELSE b

\* concatenation of f[lo], ..., f[hi]
RECURSIVE Join(_, _, _)
Join(f, lo, hi) ==
  IF lo > hi THEN ""
  ELSE IF lo = hi THEN f[lo]
  ELSE LET mid == (lo + hi) \div 2
       IN  Join(f, lo, mid) \o Join(f, mid + 1, hi)

\* " ".join(words)
JoinWords(words) ==
  Join([i \in 1..Len(words) |->
          IF i = 1 THEN words[i] ELSE " " \o words[i]], 1, Len(words))

RECURSIVE Repeat(_, _)
Repeat(s, n) ==
  IF n = 0 THEN ""
  ELSE IF n % 2 = 1 THEN s \o Repeat(s, n - 1)
  ELSE LET half == Repeat(s, n \div 2) IN half \o half

\* str.lower, one character
LowerTable ==
  [c \in UpperAZ \cup CharsOf(OTHER_UPPER) |->
     IF c \in UpperAZ
     THEN At(ASCII_LOWER, CHOOSE i \in 1..Len(ASCII_UPPER) : At(ASCII_UPPER, i) = c)
     ELSE At(OTHER_LOWER, CHOOSE i \in 1..Len(OTHER_UPPER) : At(OTHER_UPPER, i) = c)]

LowerChar(c) == IF c \in DOMAIN LowerTable THEN LowerTable[c] ELSE c

\* str.lower
Lower(s) == Join([i \in 1..Len(s) |-> LowerChar(At(s, i))], 1, Len(s))

\* str.strip(chars)
Strip(s, chars) ==
  IF \A i \in 1..Len(s) : At(s, i) \in chars THEN ""
  ELSE LET first == CHOOSE i \in 1..Len(s) :
                      /\ At(s, i) \notin chars
                      /\ \A j \in 1..(i - 1) : At(s, j) \in chars
           last  == CHOOSE i \in 1..Len(s) :
                      /\ At(s, i) \notin chars
                      /\ \A j \in (i + 1)..Len(s) : At(s, j) \in chars
       IN  SubSeq(s, first, last)

\* re.sub(r"\s+", " ", s)
CollapseSpaces(s) ==
  Join([i \in 1..Len(s) |->
          IF At(s, i) \in SpaceChars
          THEN IF i > 1 /\ At(s, i - 1) \in SpaceChars THEN "" ELSE " "
          ELSE At(s, i)], 1, Len(s))

\* p occurs in s at index i
MatchAt(p, s, i) ==
  /\ i >= 1
  /\ i + Len(p) - 1 <= Len(s)
  /\ SubSeq(s, i, i + Len(p) - 1) = p

\* p in s
Contains(p, s) == \E i \in 1..(Len(s) - Len(p) + 1) : MatchAt(p, s, i)

\* any(p in s for p in patterns)
ContainsAny(patterns, s) ==
  \E k \in 1..Len(patterns) : Contains(patterns[k], s)

\* index of the first occurrence of p in s at or after from, 0 if none
Find(p, s, from) ==
  IF \E i \in from..(Len(s) - Len(p) + 1) : MatchAt(p, s, i)
  THEN CHOOSE i \in from..(Len(s) - Len(p) + 1) :
         /\ MatchAt(p, s, i)
         /\ \A j \in from..(i - 1) : ~MatchAt(p, s, j)
  ELSE 0

IsWordAt(s, i) == i >= 1 /\ i <= Len(s) /\ At(s, i) \in WordChars

\* \b between the characters i and i + 1 of s (i = 0: before the first)
Boundary(s, i) == IsWordAt(s, i) # IsWordAt(s, i + 1)

\* re.search(rf"\b{re.escape(p)}\b", s)
SearchWord(p, s) ==
  \E i \in 1..(Len(s) - Len(p) + 1) :
     /\ MatchAt(p, s, i)
     /\ Boundary(s, i - 1)
     /\ Boundary(s, i + Len(p) - 1)

\* the least and the greatest element of a non-empty set of integers
Least(S) == CHOOSE x \in S : \A y \in S : x <= y
Greatest(S) == CHOOSE x \in S : \A y \in S : y <= x

\* the least element of a set of positive integers, 0 if it is empty
First(S) == IF S = {} THEN 0 ELSE Least(S)

\* the elements of a finite set of integers, in increasing order
RECURSIVE Ascending(_)
Ascending(S) ==
  IF S = {} THEN <<>>
  ELSE LET m == CHOOSE x \in S : \A y \in S : y <= x
       IN  Append(Ascending(S \ {m}), m)

\* the maximal runs of characters of class in s, in order
Runs(s, class) ==
  LET starts == {i \in 1..Len(s) :
                   /\ At(s, i) \in class
                   /\ (i = 1 \/ At(s, i - 1) \notin class)}
      ends   == {i \in 1..Len(s) :
                   /\ At(s, i) \in class
                   /\ (i = Len(s) \/ At(s, i + 1) \notin class)}
      EndOf(i) == CHOOSE e \in ends : e >= i /\ \A e2 \in ends : e2 >= i => e <= e2
      ordered == Ascending(starts)
  IN  [k \in 1..Len(ordered) |-> SubSeq(s, ordered[k], EndOf(ordered[k]))]

\* str.split()
Split(s) == Runs(s, AllChars \ SpaceChars)

\* the elements of a sequence
Range(seq) == {seq[k] : k \in 1..Len(seq)}

\* list(dict.fromkeys(values)): first occurrences, in order
RECURSIVE Dedup(_)
Dedup(values) ==
  IF Len(values) <= 1 THEN values
  ELSE LET mid   == Len(values) \div 2
           left  == Dedup(SubSeq(values, 1, mid))
           right == Dedup(SubSeq(values, mid + 1, Len(values)))
           seen  == Range(left)
       IN  left \o SelectSeq(right, LAMBDA v : v \notin seen)

\* str comparison by code points
CodePoint ==
  [c \in CharsOf(CODE_POINTS) |->
     CHOOSE i \in 1..Len(CODE_POINTS) : At(CODE_POINTS, i) = c]

StrLess(a, b) ==
  \E i \in 1..(Len(a) + 1) :
     /\ i <= Len(b)
     /\ SubSeq(a, 1, i - 1) = SubSeq(b, 1, i - 1)
     /\ (i = Len(a) + 1 \/ CodePoint[At(a, i)] < CodePoint[At(b, i)])

(***************************************************************************)
(* Static reference tables.  A dict is a sequence of entries in insertion  *)
(* order, which is the order dict iteration follows.                       *)
(***************************************************************************)
\* keys of FBREF_METRIC_MAP of backend/mappings/fbref_mapping.py
FBREF_METRIC_MAP ==
  <<
    "goal", "goals", "assist", "assists",
    "goal + assist", "goals + assists", "goal involvement", "goal contributions",
    "expected goals", "xg", "non-penalty expected goals", "non penalty expected goals",
    "non-penalty xg", "expected assists", "expected goal assists", "xag",
    "expected goals plus expected assists", "expected goal involvement", "expected goals + expected assists",
    "shots", "shots total", "shots on target", "shots off target",
    "shots inside box", "shots outside box", "shots per 90", "goals per 90",
    "assists per 90", "expected goals per 90", "xg per shot", "passes completed",
    "passes attempted", "pass completion %", "pass accuracy", "key passes",
    "progressive passes", "through balls", "crosses", "long passes",
    "short passes", "medium passes", "passes per 90", "touches",
    "progressive carries", "progressive carry", "carries", "dribbles",
    "dribbles completed", "dribbles attempted", "successful dribbles", "tackles",
    "tackles won", "interceptions", "blocks", "clearances",
    "fouls committed", "fouls suffered", "yellow cards", "red cards",
    "aerial duels won", "duels won", "duels lost", "saves",
    "save percentage", "save %", "goals conceded", "clean sheets",
    "post-shot xg", "post shot xg", "expected goals against", "possession",
    "possession %", "possession percentage", "touches in final third", "progressive dribbles",
    "carries into box", "passes allowed per defensive action", "ppda", "per 90",
    "per game" >>

\* keys of the local fallback FBREF_METRIC_MAP of ai/parser.py
FALLBACK_METRIC_MAP ==
  <<
    "goals", "assists", "expected goals", "xg",
    "shots", "shots on target", "passes completed", "passes attempted",
    "pass accuracy", "key passes", "possession", "possession %",
    "tackles", "interceptions", "clearances", "saves",
    "clean sheets", "goals conceded", "touches", "dribbles completed" >>

FBREF_TEAMS ==
  <<
    "Arsenal", "Aston Villa", "Bournemouth", "Brentford",
    "Brighton", "Burnley", "Chelsea", "Crystal Palace",
    "Everton", "Fulham", "Leeds United", "Liverpool",
    "Manchester City", "Manchester Utd", "Newcastle Utd", "Nott'm Forest",
    "Tottenham", "West Ham", "Wolves", "Sheffield Utd",
    "Leicester City", "Southampton", "Watford", "Cardiff City",
    "Swansea City", "Hull City", "Stoke City", "West Brom",
    "QPR", "Blackburn Rovers", "Bolton Wanderers", "Wigan Athletic",
    "Sunderland", "Middlesbrough", "Derby County", "Reading",
    "Burnley", "Charlton Athletic", "Coventry City", "Ipswich Town",
    "Norwich City", "Alaves", "Athletic Club", "Atletico Madrid",
    "Barcelona", "Celta Vigo", "Getafe", "Girona",
    "Granada", "Las Palmas", "Mallorca", "Osasuna",
    "Rayo Vallecano", "Real Betis", "Real Madrid", "Real Sociedad",
    "Sevilla", "Valencia", "Villarreal", "Augsburg",
    "Bayer Leverkusen", "Bayern Munich", "Bochum", "Borussia Dortmund",
    "Borussia M'gladbach", "Darmstadt 98", "Eint Frankfurt", "FC Cologne",
    "Heidenheim", "Hoffenheim", "Mainz 05", "RB Leipzig",
    "Union Berlin", "VfB Stuttgart", "Werder Bremen", "Wolfsburg",
    "Hamburger SV", "Köln", "St. Pauli", "Schalke 04",
    "Karlsruher SC", "Düsseldorf", "AC Milan", "AS Roma",
    "Atalanta", "Bologna", "Cagliari", "Empoli",
    "Fiorentina", "Frosinone", "Genoa", "Inter Milan",
    "Juventus", "Lazio", "Lecce", "Monza",
    "Napoli", "Salernitana", "Sassuolo", "Torino",
    "Udinese", "Verona", "Pisa", "Parma",
    "Cremonese", "Spezia", "Modena", "Angers",
    "Auxerre", "Brest", "Clermont Foot", "Lens",
    "Lille", "Lorient", "Lyon", "Marseille",
    "Metz", "Monaco", "Montpellier", "Nantes",
    "Nice", "Paris S-G", "Reims", "Rennes",
    "Strasbourg", "Toulouse", "Troyes", "Paris FC",
    "Le Havre", "Guingamp", "Dijon", "Sochaux",
    "Ajaccio", "Bordeaux", "Nîmes", "Valenciennes" >>

DEFAULT_METRICS_INIT ==
  <<
    [stat_type |-> "standard", metrics |-> << "goals", "assists", "minutes" >>],
    [stat_type |-> "keeper", metrics |-> << "saves", "clean sheets", "goals conceded" >>],
    [stat_type |-> "shooting", metrics |-> << "shots", "shots on target", "goals" >>],
    [stat_type |-> "passing", metrics |-> << "passes completed", "pass accuracy", "passes attempted" >>],
    [stat_type |-> "defense", metrics |-> << "tackles", "interceptions", "clearances" >>],
    [stat_type |-> "possession", metrics |-> << "possession %", "touches", "dribbles completed" >>] >>

LEAGUE_PATTERNS ==
  <<
    [label |-> "Big 5 European Leagues Combined", patterns |-> << "big 5", "big five", "top 5 leagues", "big 5 european leagues" >>],
    [label |-> "ENG-Premier League", patterns |-> << "premier league", "epl", "english premier league" >>],
    [label |-> "ESP-La Liga", patterns |-> << "la liga", "laliga", "spanish league" >>],
    [label |-> "FRA-Ligue 1", patterns |-> << "ligue 1", "french league" >>],
    [label |-> "GER-Bundesliga", patterns |-> << "bundesliga", "german league" >>],
    [label |-> "ITA-Serie A", patterns |-> << "serie a", "italian league" >>],
    [label |-> "INT-World Cup", patterns |-> << "world cup", "fifa world cup" >>],
    [label |-> "INT-Women's World Cup", patterns |-> << "women's world cup", "fifa women's world cup" >>],
    [label |-> "INT-European Championship", patterns |-> << "euro", "euros", "european championship", "uefa european championship" >>] >>

LEAGUE_TEAM_GROUPS ==
  <<
    [label |-> "ENG-Premier League", teams |-> <<
        "Arsenal", "Aston Villa", "Bournemouth", "Brentford",
        "Brighton", "Burnley", "Chelsea", "Crystal Palace",
        "Everton", "Fulham", "Leeds United", "Liverpool",
        "Manchester City", "Manchester Utd", "Newcastle Utd", "Nott'm Forest",
        "Tottenham", "West Ham", "Wolves", "Sheffield Utd",
        "Leicester City", "Southampton", "Watford", "Cardiff City",
        "Swansea City", "Hull City", "Stoke City", "West Brom",
        "QPR", "Blackburn Rovers", "Bolton Wanderers", "Wigan Athletic",
        "Sunderland", "Middlesbrough", "Derby County", "Reading",
        "Charlton Athletic", "Coventry City", "Ipswich Town", "Norwich City" >>],
    [label |-> "ESP-La Liga", teams |-> <<
        "Alaves", "Athletic Club", "Atletico Madrid", "Barcelona",
        "Celta Vigo", "Getafe", "Girona", "Granada",
        "Las Palmas", "Mallorca", "Osasuna", "Rayo Vallecano",
        "Real Betis", "Real Madrid", "Real Sociedad", "Sevilla",
        "Valencia", "Villarreal" >>],
    [label |-> "GER-Bundesliga", teams |-> <<
        "Augsburg", "Bayer Leverkusen", "Bayern Munich", "Bochum",
        "Borussia Dortmund", "Borussia M'gladbach", "Darmstadt 98", "Eint Frankfurt",
        "FC Cologne", "Heidenheim", "Hoffenheim", "Mainz 05",
        "RB Leipzig", "Union Berlin", "VfB Stuttgart", "Werder Bremen",
        "Wolfsburg", "Hamburger SV", "Köln", "St. Pauli",
        "Schalke 04", "Karlsruher SC", "Düsseldorf" >>],
    [label |-> "ITA-Serie A", teams |-> <<
        "AC Milan", "AS Roma", "Atalanta", "Bologna",
        "Cagliari", "Empoli", "Fiorentina", "Frosinone",
        "Genoa", "Inter Milan", "Juventus", "Lazio",
        "Lecce", "Monza", "Napoli", "Salernitana",
        "Sassuolo", "Torino", "Udinese", "Verona",
        "Pisa", "Parma", "Cremonese", "Spezia",
        "Modena" >>],
    [label |-> "FRA-Ligue 1", teams |-> <<
        "Angers", "Auxerre", "Brest", "Clermont Foot",
        "Lens", "Lille", "Lorient", "Lyon",
        "Marseille", "Metz", "Monaco", "Montpellier",
        "Nantes", "Nice", "Paris S-G", "Reims",
        "Rennes", "Strasbourg", "Toulouse", "Troyes",
        "Paris FC", "Le Havre", "Guingamp", "Dijon",
        "Sochaux", "Ajaccio", "Bordeaux", "Nîmes",
        "Valenciennes" >>] >>

CHART_PATTERNS ==
  <<
    [label |-> "bar", patterns |-> << "bar chart", "bar graph", "compare", "comparison", "vs", "versus", "top" >>],
    [label |-> "line", patterns |-> << "line chart", "line graph", "trend", "over time", "across seasons", "by season" >>],
    [label |-> "scatter", patterns |-> << "scatter", "scatter plot" >>],
    [label |-> "pie", patterns |-> << "pie chart", "pie graph", "share", "distribution" >>],
    [label |-> "table", patterns |-> << "table", "tabular", "list" >>],
    [label |-> "heatmap", patterns |-> << "heatmap", "correlation" >>],
    [label |-> "radar", patterns |-> << "radar", "spider chart" >>] >>

STAT_TYPE_PATTERNS ==
  <<
    [label |-> "keeper", patterns |-> << "keeper", "goalkeeper", "goalkeeping", "save", "clean sheet", "goals conceded" >>],
    [label |-> "shooting", patterns |-> << "shooting", "shots", "shot", "xg", "finishing" >>],
    [label |-> "passing", patterns |-> << "passing", "pass", "assists", "key pass", "through ball" >>],
    [label |-> "defense", patterns |-> << "defense", "defensive", "tackles", "interceptions", "clearances", "blocks" >>],
    [label |-> "possession", patterns |-> << "possession", "touches", "dribbles", "carries" >>] >>

TEAM_ALIASES ==
  <<
    [alias |-> "manchester united", canonical |-> "Manchester Utd"],
    [alias |-> "man united", canonical |-> "Manchester Utd"],
    [alias |-> "man utd", canonical |-> "Manchester Utd"],
    [alias |-> "manchester city", canonical |-> "Manchester City"],
    [alias |-> "psg", canonical |-> "Paris S-G"],
    [alias |-> "inter", canonical |-> "Inter Milan"],
    [alias |-> "spurs", canonical |-> "Tottenham"],
    [alias |-> "wolves", canonical |-> "Wolves"],
    [alias |-> "atletico", canonical |-> "Atletico Madrid"],
    [alias |-> "newcastle", canonical |-> "Newcastle Utd"],
    [alias |-> "nottingham forest", canonical |-> "Nott'm Forest"] >>

METRIC_TO_STAT_TYPE_HINTS ==
  <<
    [token |-> "xg", stat_type |-> "shooting"],
    [token |-> "expected goals", stat_type |-> "shooting"],
    [token |-> "shots on target", stat_type |-> "shooting"],
    [token |-> "shots", stat_type |-> "shooting"],
    [token |-> "shot", stat_type |-> "shooting"],
    [token |-> "save", stat_type |-> "keeper"],
    [token |-> "clean sheet", stat_type |-> "keeper"],
    [token |-> "passes", stat_type |-> "passing"],
    [token |-> "pass", stat_type |-> "passing"],
    [token |-> "assist", stat_type |-> "passing"],
    [token |-> "tackles", stat_type |-> "defense"],
    [token |-> "interceptions", stat_type |-> "defense"],
    [token |-> "clearances", stat_type |-> "defense"],
    [token |-> "possession", stat_type |-> "possession"],
    [token |-> "touches", stat_type |-> "possession"],
    [token |-> "dribble", stat_type |-> "possession"] >>

PLAYER_LEADING_STOPWORDS ==
  {"compare", "show", "display", "analyze", "analyse", "find", "get", "give", "prompt"}

PLAYER_TRAILING_STOPWORDS ==
  {"stat", "stats", "goal", "goals", "assist", "assists", "shot", "shots", "season", "seasons"}

OtherLeague == "ENG-Premier League"

DEFAULT_LEAGUE == "Big 5 European Leagues Combined"

(***************************************************************************)
(* Values of the descriptor fields: None, a str, or a list of str.         *)
(***************************************************************************)
None == [kind |-> "None", items |-> <<>>]
Str(s) == [kind |-> "str", items |-> <<s>>]
List(values) == [kind |-> "list", items |-> values]

IsNone(v) == v.kind = "None"
IsStr(v) == v.kind = "str"
IsList(v) == v.kind = "list"

\* x or y, for values that are None or a non-empty str
Or(x, y) == IF IsNone(x) THEN y ELSE x

(***************************************************************************)
(* SportsQueryParser.__init__: the knowledge base.  rf tells whether       *)
(* rapidfuzz is installed: backend.mappings.fbref_mapping imports it, so   *)
(* without it the import of the mapping fails and the local fallback       *)
(* tables are used.                                                        *)
(***************************************************************************)
\* the keys sorted by length, shortest first
ShortestFirst(keys, lo, hi) == SortSeq(keys, LAMBDA a, b : Len(a) < Len(b))

\* sorted(keys, key=len, reverse=True): stable, longest first; the keys
\* whose length lies in lo..hi
RECURSIVE LongestFirst(_, _, _)
LongestFirst(keys, lo, hi) ==
  IF lo > hi THEN <<>>
  ELSE IF lo = hi THEN SelectSeq(keys, LAMBDA k : Len(k) = lo)
  ELSE LET mid == (lo + hi) \div 2
       IN  LongestFirst(keys, mid + 1, hi) \o LongestFirst(keys, lo, mid)

MaxLen(keys) ==
  IF keys = <<>> THEN 0
  ELSE LET lengths == {Len(keys[k]) : k \in 1..Len(keys)}
       IN  CHOOSE n \in lengths : \A m \in lengths : m <= n

\* the phrases in table order, not sorted
UnsortedPhrases ==
  [rf \in BOOLEAN |-> IF rf THEN FBREF_METRIC_MAP ELSE FALLBACK_METRIC_MAP]

metric_phrases ==
  [rf \in BOOLEAN |->
     LET keys == IF rf THEN FBREF_METRIC_MAP ELSE FALLBACK_METRIC_MAP
     IN  LongestFirst(keys, 0, MaxLen(keys))]

\* the keys of TEAM_TO_LEAGUE, in insertion order
RECURSIVE GroupTeams(_)
GroupTeams(k) ==
  IF k = 0 THEN <<>> ELSE GroupTeams(k - 1) \o LEAGUE_TEAM_GROUPS[k].teams

TEAM_TO_LEAGUE_KEYS == Dedup(GroupTeams(Len(LEAGUE_TEAM_GROUPS)))

\* TEAM_TO_LEAGUE[team]: the last group that lists the team
TEAM_TO_LEAGUE ==
  [team \in Range(TEAM_TO_LEAGUE_KEYS) |->
     LET k == CHOOSE k \in 1..Len(LEAGUE_TEAM_GROUPS) :
                /\ team \in Range(LEAGUE_TEAM_GROUPS[k].teams)
                /\ \A k2 \in (k + 1)..Len(LEAGUE_TEAM_GROUPS) :
                      team \notin Range(LEAGUE_TEAM_GROUPS[k2].teams)
     IN  LEAGUE_TEAM_GROUPS[k].label]

\* the registry sorted the other way round
DescendingNames ==
  SortSeq(Dedup(TEAM_TO_LEAGUE_KEYS \o FBREF_TEAMS), LAMBDA a, b : StrLess(b, a))

\* sorted(set(list(self.team_to_league.keys()) + imported_team_names))
team_names == SortSeq(Dedup(TEAM_TO_LEAGUE_KEYS \o FBREF_TEAMS), StrLess)

team_names_lower == [k \in 1..Len(team_names) |-> Lower(team_names[k])]

\* {team.lower(): league}: the last key with that lower-case form wins
team_to_league_lower ==
  [name \in {Lower(team) : team \in Range(TEAM_TO_LEAGUE_KEYS)} |->
     LET k == CHOOSE k \in 1..Len(TEAM_TO_LEAGUE_KEYS) :
                /\ Lower(TEAM_TO_LEAGUE_KEYS[k]) = name
                /\ \A k2 \in (k + 1)..Len(TEAM_TO_LEAGUE_KEYS) :
                      Lower(TEAM_TO_LEAGUE_KEYS[k2]) # name
     IN  TEAM_TO_LEAGUE[TEAM_TO_LEAGUE_KEYS[k]]]

(***************************************************************************)
(* The extractors that scan a pattern table.                               *)
(***************************************************************************)
_normalize(text) ==
  LET lowered ==
        Join([i \in 1..Len(text) |->
                IF At(text, i) = "&" THEN " and " ELSE LowerChar(At(text, i))],
             1, Len(text))
  IN  Strip(CollapseSpaces(lowered), SpaceChars)

\* no collapsing: always a list
AlwaysList(values) == List(values)

_as_scalar_or_list(values) ==
  IF values = <<>> THEN None
  ELSE IF Len(values) = 1 THEN Str(values[1])
  ELSE List(values)

\* the label of the last entry of a pattern table with a pattern in text
LastHit(table, normalized_text) ==
  IF \E k \in 1..Len(table) : ContainsAny(table[k].patterns, normalized_text)
  THEN Str(table[Greatest({k \in 1..Len(table) :
                             ContainsAny(table[k].patterns, normalized_text)})].label)
  ELSE None

\* the label of the first entry of a pattern table with a pattern in text
FirstHit(table, normalized_text) ==
  IF \E k \in 1..Len(table) : ContainsAny(table[k].patterns, normalized_text)
  THEN LET k == CHOOSE k \in 1..Len(table) :
                  /\ ContainsAny(table[k].patterns, normalized_text)
                  /\ \A k2 \in 1..(k - 1) :
                        ~ContainsAny(table[k2].patterns, normalized_text)
       IN  Str(table[k].label)
  ELSE None

_extract_league(normalized_text) == FirstHit(LEAGUE_PATTERNS, normalized_text)

\* a scan of CHART_PATTERNS that returns the last entry with a pattern in text
LastChartHit(normalized_text) == LastHit(CHART_PATTERNS, normalized_text)

_extract_chart_type(normalized_text) == FirstHit(CHART_PATTERNS, normalized_text)

\* TEAM_ALIASES.get(key, default)
AliasGet(key, default) ==
  IF \E k \in 1..Len(TEAM_ALIASES) : TEAM_ALIASES[k].alias = key
  THEN TEAM_ALIASES[CHOOSE k \in 1..Len(TEAM_ALIASES) :
                      TEAM_ALIASES[k].alias = key].canonical
  ELSE default

\* a table of leagues that knows no team
LeagueUnknown(key) == None

\* self.team_to_league_lower.get(key)
LeagueGet(key) ==
  IF key \in DOMAIN team_to_league_lower
  THEN Str(team_to_league_lower[key]) ELSE None

\* the league of one team: by its canonical name, else by its own name
LeagueOfNames(canonical_lower, team_lower) ==
  Or(LeagueGet(canonical_lower), LeagueGet(team_lower))

LeagueOfLower(team, team_lower) ==
  LeagueOfNames(Lower(AliasGet(team_lower, team)), team_lower)

LeagueOfTeam(team) == LeagueOfLower(team, Lower(team))

\* team_leagues: the leagues found, in the order of the teams
LeaguesFound(leagues) ==
  LET known == SelectSeq(leagues, LAMBDA league : ~IsNone(league))
  IN  [k \in 1..Len(known) |-> known[k].items[1]]

\* the first league found, whatever the others are
AnyLeague(unique_leagues) ==
  IF Len(unique_leagues) >= 1 THEN Str(unique_leagues[1]) ELSE None

OneLeague(unique_leagues) ==
  IF Len(unique_leagues) = 1 THEN Str(unique_leagues[1])
  ELSE IF Len(unique_leagues) > 1 THEN Str("Big 5 European Leagues Combined")
  ELSE None

_infer_league_from_teams(teams) ==
  OneLeague(Dedup(LeaguesFound([k \in 1..Len(teams) |-> LeagueOfTeam(teams[k])])))

(***************************************************************************)
(* Metric extraction: longest phrases first, over free character spans.    *)
(***************************************************************************)
\* spans are (start, end) with start counted from 0 and end exclusive
Overlaps(span, occupied_spans) ==
  \E k \in 1..Len(occupied_spans) :
     ~(span[2] <= occupied_spans[k][1] \/ span[1] >= occupied_spans[k][2])

\* the first match of re.finditer(phrase, text), scanning from index from,
\* whose span is free; 0 if no match is free
RECURSIVE FirstFreeMatch(_, _, _, _)
FirstFreeMatch(phrase, text, from, occupied_spans) ==
  LET i == Find(phrase, text, from)
  IN  IF i = 0 THEN 0
      ELSE IF Overlaps(<<i - 1, i - 1 + Len(phrase)>>, occupied_spans)
      THEN FirstFreeMatch(phrase, text, i + Len(phrase), occupied_spans)
      ELSE i

\* the loop over the metric phrases, from phrase k on; acc holds found and
\* occupied_spans
RECURSIVE MetricLoop(_, _, _, _)
MetricLoop(phrases, normalized_text, k, acc) ==
  IF k > Len(phrases) THEN acc
  ELSE LET phrase_norm == Strip(Lower(phrases[k]), SpaceChars)
           i == FirstFreeMatch(phrase_norm, normalized_text, 1, acc.occupied_spans)
       IN  IF i = 0 THEN MetricLoop(phrases, normalized_text, k + 1, acc)
           ELSE MetricLoop(phrases, normalized_text, k + 1,
                  [found |-> Append(acc.found, phrases[k]),
                   occupied_spans |->
                     Append(acc.occupied_spans, <<i - 1, i - 1 + Len(phrase_norm)>>)])

\* found and occupied_spans at the end of the loop of _extract_metrics; a
\* phrase without any match leaves both unchanged, so the loop is run over
\* the phrases that have a match
MetricSpans(rf, normalized_text) ==
  MetricLoop(SelectSeq(metric_phrases[rf],
                       LAMBDA phrase :
                         Contains(Strip(Lower(phrase), SpaceChars), normalized_text)),
             normalized_text, 1, [found |-> <<>>, occupied_spans |-> <<>>])

_extract_metrics(rf, normalized_text) ==
  Dedup(MetricSpans(rf, normalized_text).found)

\* a cascade that consults the hints of the metrics before the patterns
HintsFirst(normalized_text, metrics) ==
  LET metric_blob == Lower(JoinWords(metrics))
      hints == METRIC_TO_STAT_TYPE_HINTS
  IN  IF \E k \in 1..Len(hints) : Contains(hints[k].token, metric_blob)
      THEN hints[Least({k \in 1..Len(hints) :
                          Contains(hints[k].token, metric_blob)})].stat_type
      ELSE Or(FirstHit(STAT_TYPE_PATTERNS, normalized_text), Str("standard")).items[1]

_extract_stat_type(normalized_text, metrics) ==
  LET byPattern == FirstHit(STAT_TYPE_PATTERNS, normalized_text)
      metric_blob == Lower(JoinWords(metrics))
      hints == METRIC_TO_STAT_TYPE_HINTS
  IN  IF ~IsNone(byPattern) THEN byPattern.items[1]
      ELSE IF \E k \in 1..Len(hints) : Contains(hints[k].token, metric_blob)
      THEN hints[CHOOSE k \in 1..Len(hints) :
                   /\ Contains(hints[k].token, metric_blob)
                   /\ \A k2 \in 1..(k - 1) : ~Contains(hints[k2].token, metric_blob)
                ].stat_type
      ELSE "standard"


(***************************************************************************)
(* The inputs of parse.  An input is any value: a str, or a value of       *)
(* another type (None, an int).                                            *)
(***************************************************************************)
Text(s) == [type |-> "str", text |-> s]
NonText(type) == [type |-> type, text |-> ""]

\* sys.int_info.default_max_str_digits: int() of a longer digit string
\* raises ValueError
INT_MAX_STR_DIGITS == 4300

IsSpaceAt(s, i) == i >= 1 /\ i <= Len(s) /\ At(s, i) \in SpaceChars

\* the index of the first character at or after i that is not a space
\* (Len(s) + 1 if there is none): where \s* ends
SkipSpaces(s, i) ==
  CHOOSE j \in i..(Len(s) + 1) :
    /\ ~IsSpaceAt(s, j)
    /\ \A j2 \in i..(j - 1) : IsSpaceAt(s, j2)

PROMPTS ==
  << NonText("NoneType"),
     NonText("int"),
     Text(""),
     Text(" \t\n"),
     Text("?!"),
     Text("Prompt:"),
     Text("Show me Arsenal's expected goals in the 2023 Premier League season"),
     Text("Compare Real Madrid and Barcelona goals in La Liga 2022/23"),
     Text("Liverpool possession stats past 5 seasons"),
     Text("Show me Manchester United passing stats this season"),
     Text("Top 10 goalkeepers in Serie A 2021/22 by clean sheets"),
     Text("Compare Messi and Ronaldo assists in 2021"),
     Text("Compare Kevin De Bruyne and Mo Salah"),
     Text("PROMPT:  Haaland's goals"),
     Text("Lionel Messi goals last season"),
     Text("rsenal iverpool"),
     Text("last 0 seasons"),
     Text("last 99999999999999999999 seasons"),
     Text("last " \o Repeat("9", INT_MAX_STR_DIGITS + 1) \o " seasons"),
     Text("keeper ranking"),
     Text("finishing"),
     Text("passing"),
     Text("defensive record"),
     Text("carries"),
     Text("standings"),
     Text("Arsenal"),
     Text("Arsenal vs Chelsea"),
     Text("Arsenal and Chelsea"),
     Text("Arsenal and Lyon 2023-2024"),
     Text("goals and assists trend 2020 2021"),
     Text("PSG & Inter xg"),
     Text("2023/24"),
     Text("2019-20"),
     Text("1999/00"),
     Text("2020-2023"),
     Text("last 101 seasons"),
     Text("Compare Messi and Ronaldo at Arsenal"),
     Text("Juventus la liga epl"),
     Text("iverpool arsenal psg"),
     Text("expected goals and goals"),
     Text("expected goals vs expected goals"),
     Text("assistsavesaves saves"),
     Text("shots and saves"),
     Text("2021 this season"),
     Text("this season last season past 2 seasons"),
     Text("Arsenal vs. Chelsea"),
     Text("Arsenal against Chelsea trend"),
     Text("Compare Arsenal and Chelsea trend table"),
     Text("women's world cup") >>

Inputs == Range(PROMPTS)

\* isinstance(prompt, str) and prompt.strip() != ""
IsText(prompt) == prompt.type = "str" /\ Strip(prompt.text, SpaceChars) # ""

\* re.sub(r"^\s*prompt\s*:\s*", "", prompt, flags=re.IGNORECASE)
StripPromptPrefix(prompt) ==
  LET word == SkipSpaces(prompt, 1)
      colon == SkipSpaces(prompt, word + 6)
  IN  IF /\ word + 5 <= Len(prompt)
         /\ Lower(SubSeq(prompt, word, word + 5)) = "prompt"
         /\ colon <= Len(prompt)
         /\ At(prompt, colon) = ":"
      THEN SubSeq(prompt, SkipSpaces(prompt, colon + 1), Len(prompt))
      ELSE prompt

\* the texts the extractors are run on
Texts == {StripPromptPrefix(p.text) : p \in {q \in Inputs : IsText(q)}}

\* text.lower(), & replaced, whitespace collapsed: tabulated on the input texts
normalized == [text \in Texts |-> _normalize(text)]

(***************************************************************************)
(* Fuzzy matching of a candidate window against the team names.  Scores    *)
(* are fractions n / d of integers, in percent.                            *)
(***************************************************************************)
\* score >= 92 of the rapidfuzz branch, cutoff=0.92 of the difflib branch
FUZZY_THRESHOLD == 92

Frac(n, d) == [n |-> n, d |-> d]
Geq(x, y) == x.n * y.d >= y.n * x.d
Greater(x, y) == x.n * y.d > y.n * x.d
FracMax(x, y) == IF Geq(x, y) THEN x ELSE y
Zero == Frac(0, 1)

\* percent / 100 of x
Scale(percent, x) == Frac(percent * x.n, 100 * x.d)

Count(c, s) == Cardinality({i \in 1..Len(s) : At(s, i) = c})

\* the length of the longest run a[i..] = b[j..] inside a[..ahi], b[..bhi]
CommonRun(a, i, ahi, b, j, bhi) ==
  Greatest({k \in 0..Min(ahi - i + 1, bhi - j + 1) :
              SubSeq(a, i, i + k - 1) = SubSeq(b, j, j + k - 1)})

\* the block of size k that starts at i in a: the earliest such block in b
BlockAt(runs, blo, bhi, k, i) ==
  [i |-> i, j |-> Least({j \in blo..bhi : runs[i][j] = k}), k |-> k]

\* the earliest block of size k in a
EarliestBlock(runs, alo, ahi, blo, bhi, k) ==
  BlockAt(runs, blo, bhi, k,
          Least({i \in alo..ahi : \E j \in blo..bhi : runs[i][j] = k}))

\* SequenceMatcher.find_longest_match (no junk): the longest block, the
\* earliest in a, and of those the earliest in b; runs[i][j] is the length
\* of the common run that starts at i in a and at j in b
LongestBlock(runs, alo, ahi, blo, bhi) ==
  EarliestBlock(runs, alo, ahi, blo, bhi,
                Greatest({runs[i][j] : i \in alo..ahi, j \in blo..bhi}))

find_longest_match(a, alo, ahi, b, blo, bhi) ==
  LongestBlock([i \in alo..ahi |-> [j \in blo..bhi |-> CommonRun(a, i, ahi, b, j, bhi)]],
               alo, ahi, blo, bhi)

\* the total size of SequenceMatcher.get_matching_blocks: the longest block
\* m, and the blocks to its left and to its right
RECURSIVE MatchingSize(_, _, _, _, _, _)
RECURSIVE MatchingAround(_, _, _, _, _, _, _)
MatchingAround(a, alo, ahi, b, blo, bhi, m) ==
  IF m.k = 0 THEN 0
  ELSE m.k + MatchingSize(a, alo, m.i - 1, b, blo, m.j - 1)
           + MatchingSize(a, m.i + m.k, ahi, b, m.j + m.k, bhi)

MatchingSize(a, alo, ahi, b, blo, bhi) ==
  IF alo > ahi \/ blo > bhi THEN 0
  ELSE MatchingAround(a, alo, ahi, b, blo, bhi,
                      find_longest_match(a, alo, ahi, b, blo, bhi))

\* difflib._calculate_ratio
_calculate_ratio(matches, length) ==
  IF length > 0 THEN Frac(200 * matches, length) ELSE Frac(100, 1)

real_quick_ratio(a, b) == _calculate_ratio(Min(Len(a), Len(b)), Len(a) + Len(b))

quick_ratio(a, b) ==
  _calculate_ratio(
    Cardinality({i \in 1..Len(a) : Count(At(a, i), SubSeq(a, 1, i)) <= Count(At(a, i), b)}),
    Len(a) + Len(b))

SequenceMatcherRatio(a, b) ==
  _calculate_ratio(MatchingSize(a, 1, Len(a), b, 1, Len(b)), Len(a) + Len(b))

\* the index of the best of the scores that reach the cutoff, 0 if none
\* does; of equal scores the last one wins if later, else the first one
BestIndex(scores, cutoff, later) ==
  LET hits == {k \in DOMAIN scores : Geq(scores[k], cutoff)}
  IN  IF hits = {} THEN 0
      ELSE CHOOSE k \in hits :
             \A k2 \in hits :
                \/ Greater(scores[k], scores[k2])
                \/ /\ Geq(scores[k], scores[k2])
                   /\ IF later THEN k >= k2 ELSE k <= k2

\* the score get_close_matches gives to a name: its ratio, when the two
\* quick upper bounds reach the cutoff
CloseScore(name, word, cutoff) ==
  IF /\ Geq(real_quick_ratio(name, word), cutoff)
     /\ Geq(quick_ratio(name, word), cutoff)
  THEN SequenceMatcherRatio(name, word) ELSE Zero

\* difflib.get_close_matches(word, team_names, n=1, cutoff=0.92): the index
\* of the match in names, 0 if there is none; of equal scores the greater
\* name wins
get_close_matches(word, names) ==
  BestIndex([k \in 1..Len(names) |-> CloseScore(names[k], word, Frac(FUZZY_THRESHOLD, 1))],
            Frac(FUZZY_THRESHOLD, 1), TRUE)

\* the length of a longest common subsequence, row by row: row i holds, for
\* each prefix b[1..j], the length for a[1..i] and that prefix
RECURSIVE LcsRows(_, _, _, _)
LcsRows(a, b, i, prev) ==
  IF i > Len(a) THEN prev
  ELSE LET hit == {j \in 1..Len(b) : At(b, j) = At(a, i)}
           Before(j) == IF j = 1 THEN 0 ELSE prev[j - 1]
           row == [j \in 1..Len(b) |->
                     LET ends == {Before(j2) + 1 : j2 \in {h \in hit : h <= j}} \cup {prev[j]}
                     IN  CHOOSE n \in ends : \A m \in ends : m <= n]
       IN  LcsRows(a, b, i + 1, SubSeq(row, 1, Len(b)))

Lcs(a, b) ==
  IF Len(a) = 0 \/ Len(b) = 0 THEN 0
  ELSE LcsRows(a, b, 1, [j \in 1..Len(b) |-> 0])[Len(b)]

\* no common subsequence is longer than the shorter string, nor than the
\* number of characters of a that occur in b
LcsBound(a, b) ==
  LET inB == CharsOf(b)
  IN  Min(Len(b), Cardinality({i \in 1..Len(a) : At(a, i) \in inB}))

\* 100 - 100 * dist / lensum for the Indel distance dist of a and b, or 0
\* when that lies below score_cutoff (rapidfuzz _norm_distance)
NormSimilarity(a, b, lensum, score_cutoff) ==
  LET Score(lcs) == Frac(100 * (lensum - (Len(a) + Len(b) - 2 * lcs)), lensum)
  IN  IF lensum = 0 THEN Frac(100, 1)
      ELSE IF ~Geq(Score(Min(Len(a), Len(b))), score_cutoff) THEN Zero
      ELSE IF ~Geq(Score(LcsBound(a, b)), score_cutoff) THEN Zero
      ELSE IF Geq(Score(Lcs(a, b)), score_cutoff) THEN Score(Lcs(a, b))
      ELSE Zero

\* rapidfuzz.fuzz.ratio(s1, s2, score_cutoff)
ratio(s1, s2, score_cutoff) ==
  NormSimilarity(s1, s2, Len(s1) + Len(s2), score_cutoff)

\* rapidfuzz.fuzz.token_sort_ratio
token_sort_ratio(s1, s2, score_cutoff) ==
  ratio(JoinWords(SortSeq(Split(s1), StrLess)),
        JoinWords(SortSeq(Split(s2), StrLess)), score_cutoff)

\* " ".join(sorted(tokens)) for the set keep of the tokens of words
SortedJoin(words, keep) ==
  JoinWords(SortSeq(Dedup(SelectSeq(words, LAMBDA t : t \in keep)), StrLess))

\* a score, or 0 when it lies below score_cutoff
AtLeast(score, score_cutoff) == IF Geq(score, score_cutoff) THEN score ELSE Zero

\* the end of token_set_ratio, from the joined intersection and differences
JoinedRatio(sect_joined, diff_ab_joined, diff_ba_joined, score_cutoff) ==
  LET ab_len == Len(diff_ab_joined)
      ba_len == Len(diff_ba_joined)
      sect_len == Len(sect_joined)
      gap == IF sect_len # 0 THEN 1 ELSE 0
      sect_ab_len == sect_len + gap + ab_len
      sect_ba_len == sect_len + gap + ba_len
      Norm(dist, lensum) ==
        AtLeast(IF lensum = 0 THEN Frac(100, 1)
                ELSE Frac(100 * (lensum - dist), lensum), score_cutoff)
  IN  IF sect_len = 0
      THEN NormSimilarity(diff_ab_joined, diff_ba_joined,
                          sect_ab_len + sect_ba_len, score_cutoff)
      ELSE FracMax(NormSimilarity(diff_ab_joined, diff_ba_joined,
                                  sect_ab_len + sect_ba_len, score_cutoff),
                   FracMax(Norm(gap + ab_len, sect_len + sect_ab_len),
                           Norm(gap + ba_len, sect_len + sect_ba_len)))

\* token_set_ratio on the token sets of the two strings
TokenSetRatio(words, tokens_a, tokens_b, score_cutoff) ==
  IF tokens_a = {} \/ tokens_b = {} THEN Zero
  ELSE IF /\ tokens_a \cap tokens_b # {}
          /\ (tokens_a \ tokens_b = {} \/ tokens_b \ tokens_a = {})
  THEN Frac(100, 1)
  ELSE JoinedRatio(SortedJoin(words, tokens_a \cap tokens_b),
                   SortedJoin(words, tokens_a \ tokens_b),
                   SortedJoin(words, tokens_b \ tokens_a), score_cutoff)

\* rapidfuzz.fuzz.token_set_ratio
token_set_ratio(s1, s2, score_cutoff) ==
  TokenSetRatio(Split(s1) \o Split(s2), Range(Split(s1)), Range(Split(s2)),
                score_cutoff)

\* rapidfuzz.fuzz.token_ratio
token_ratio(s1, s2, score_cutoff) ==
  FracMax(token_set_ratio(s1, s2, score_cutoff),
          token_sort_ratio(s1, s2, score_cutoff))

\* rapidfuzz.fuzz.WRatio(s1, s2, score_cutoff), no processor.  When one
\* string is at least 1.5 times as long as the other, the score is the
\* largest of ratio, of 0.9 (or 0.6) times partial_ratio and of 0.95 * 0.9
\* (or 0.6) times partial_token_ratio; the partial scores are at most 100,
\* so their terms are at most 90: the value 90 stands for them.
WRatio(s1, s2, score_cutoff) ==
  IF Len(s1) = 0 \/ Len(s2) = 0 THEN Zero
  ELSE IF 2 * Max(Len(s1), Len(s2)) < 3 * Min(Len(s1), Len(s2))
  THEN FracMax(ratio(s1, s2, score_cutoff),
               Scale(95, token_ratio(s1, s2, Frac(100 * score_cutoff.n,
                                                  95 * score_cutoff.d))))
  ELSE AtLeast(FracMax(ratio(s1, s2, score_cutoff), Frac(90, 1)), score_cutoff)

\* process.extractOne(candidate, team_names, scorer=fuzz.WRatio) followed by
\* the test score >= 92: the index of the first best name whose score is
\* at least the threshold, 0 if the best score is below it
extractOne(candidate, names) ==
  BestIndex([k \in 1..Len(names) |-> WRatio(candidate, names[k], Frac(FUZZY_THRESHOLD, 1))],
            Frac(FUZZY_THRESHOLD, 1), FALSE)

(***************************************************************************)
(* Team extraction: alias pass, exact pass, fuzzy pass over the set of     *)
(* 1-4 token windows.                                                      *)
(***************************************************************************)
\* [a-z0-9']
TokenChars == LowerAZ \cup DigitChars \cup {"'"}

\* the windows of size tokens, left to right
WindowsOfSize(words, size) ==
  [i \in 1..Max(0, Len(words) - size + 1) |->
     JoinWords(SubSeq(words, i, i + size - 1))]

\* the windows of 1 to 4 of the words, in the order they are added
AllWindows(words) ==
  Dedup(WindowsOfSize(words, 1) \o WindowsOfSize(words, 2)
          \o WindowsOfSize(words, 3) \o WindowsOfSize(words, 4))

\* the elements of the set candidates, in the order they were added
Candidates(normalized_text) == AllWindows(Runs(normalized_text, TokenChars))

\* The iteration order of a set of str is fixed by the hashes of its
\* elements, and these change with the hash seed of the process.  Seed 0
\* gives the order of insertion, seed 1 its reverse, the later seeds
\* rotations of these two.
SetOrder(elements, hash_seed) ==
  [k \in 1..Len(elements) |->
     IF hash_seed % 2 = 0
     THEN elements[((k - 1 + hash_seed \div 2) % Len(elements)) + 1]
     ELSE elements[Len(elements) - ((k - 1 + hash_seed \div 2) % Len(elements))]]

\* the name at index k of team_names as a list, the empty list for k = 0
NameAt(k) == IF k = 0 THEN <<>> ELSE <<team_names[k]>>

\* the name matched by one candidate, as a list of zero or one names
FuzzyMatch(rf, candidate) ==
  NameAt(IF rf THEN extractOne(candidate, team_names)
         ELSE get_close_matches(candidate, team_names))

\* the windows of the input texts
Windows == UNION {Range(Candidates(normalized[text])) : text \in Texts}

\* FuzzyMatch, tabulated on the windows of the input texts
matched == [rf \in BOOLEAN |-> [candidate \in Windows |-> FuzzyMatch(rf, candidate)]]

\* the concatenation of the lists table[ordered[k]], from k on
RECURSIVE Appended(_, _, _)
Appended(table, ordered, k) ==
  IF k > Len(ordered) THEN <<>>
  ELSE table[ordered[k]] \o Appended(table, ordered, k + 1)

\* the names appended by the fuzzy pass, in the order of the iteration
FuzzyTeams(rf, hash_seed, normalized_text) ==
  Appended(matched[rf], SetOrder(Candidates(normalized_text), hash_seed), 1)

AliasTeams(normalized_text) ==
  LET hit == SelectSeq(TEAM_ALIASES,
                       LAMBDA entry : SearchWord(entry.alias, normalized_text))
  IN  [k \in 1..Len(hit) |-> hit[k].canonical]

ExactTeams(normalized_text) ==
  LET hit == SelectSeq([k \in 1..Len(team_names) |-> k],
                       LAMBDA k : SearchWord(team_names_lower[k], normalized_text))
  IN  [k \in 1..Len(hit) |-> team_names[hit[k]]]

\* the passes in another order: the fuzzy pass first
FuzzyFirst(rf, hash_seed, normalized_text) ==
  Dedup(FuzzyTeams(rf, hash_seed, normalized_text)
          \o AliasTeams(normalized_text) \o ExactTeams(normalized_text))

_extract_teams(rf, hash_seed, normalized_text) ==
  Dedup(AliasTeams(normalized_text) \o ExactTeams(normalized_text)
          \o FuzzyTeams(rf, hash_seed, normalized_text))

(***************************************************************************)
(* Season extraction.                                                      *)
(***************************************************************************)
IsDigitAt(s, i) == i >= 1 /\ i <= Len(s) /\ At(s, i) \in DigitChars

\* int(s) for a str of digits
RECURSIVE ParseInt(_)
ParseInt(s) ==
  IF s = "" THEN 0
  ELSE LET digit == CHOOSE d \in 0..9 : At(DIGITS, d + 1) = At(s, Len(s))
       IN  10 * ParseInt(SubSeq(s, 1, Len(s) - 1)) + digit

\* f"{n:02d}" for 0 <= n < 100
TwoDigits(n) == At(DIGITS, (n \div 10) + 1) \o At(DIGITS, (n % 10) + 1)

_compact_season(start_year, end_year) ==
  IF IsNone(end_year) THEN TwoDigits(start_year % 100)
  ELSE TwoDigits(start_year % 100) \o TwoDigits(end_year.year % 100)

\* an end year given to _compact_season
Year(y) == [kind |-> "int", year |-> y]

\* \b(20\d{2}) at index i
YearAt(s, i) ==
  /\ Boundary(s, i - 1)
  /\ MatchAt("20", s, i)
  /\ IsDigitAt(s, i + 2)
  /\ IsDigitAt(s, i + 3)

\* the match of \b(20\d{2})\s*[-/]\s*(\d{2}|\d{4})\b at index i: the index
\* of the first and of the last character of the second group, <<0, 0>> if
\* the pattern does not match at i
RangeAt(s, i) ==
  LET sep == SkipSpaces(s, i + 4)
      end == SkipSpaces(s, sep + 1)
      Digits(n) == \A d \in 0..(n - 1) : IsDigitAt(s, end + d)
  IN  IF ~(YearAt(s, i) /\ sep <= Len(s) /\ At(s, sep) \in {"-", "/"}) THEN <<0, 0>>
      ELSE IF Digits(2) /\ Boundary(s, end + 1) THEN <<end, end + 1>>
      ELSE IF Digits(4) /\ Boundary(s, end + 3) THEN <<end, end + 3>>
      ELSE <<0, 0>>

\* re.findall of the range pattern from index from on: the matches, left to
\* right and not overlapping, as pairs (start, end) of str
RECURSIVE RangeMatches(_, _)
RECURSIVE RangeMatchesAt(_, _, _)
\* the match at index i, whose second group is at group, and the later ones
RangeMatchesAt(s, i, group) ==
  <<[start |-> SubSeq(s, i, i + 3), end |-> SubSeq(s, group[1], group[2])]>>
    \o RangeMatches(s, group[2] + 1)

RECURSIVE RangeMatchesFrom(_, _)
\* the matches from the first match on, which is at index i (0: no match)
RangeMatchesFrom(s, i) ==
  IF i = 0 THEN <<>> ELSE RangeMatchesAt(s, i, RangeAt(s, i))

RangeMatches(s, from) ==
  RangeMatchesFrom(s, First({i \in from..Len(s) : RangeAt(s, i) # <<0, 0>>}))

\* re.findall(r"\b(20\d{2})\b", s)
YearMatches(s) ==
  LET hit == Ascending({i \in 1..Len(s) : YearAt(s, i) /\ Boundary(s, i + 3)})
  IN  [k \in 1..Len(hit) |-> SubSeq(s, hit[k], hit[k] + 3)]

\* the match of (last|past)\s+(\d+)\s+seasons? at index i: the index of the
\* first and of the last digit, <<0, 0>> if the pattern does not match at i
SpanAt(s, i) ==
  LET first == SkipSpaces(s, i + 4)
      after == CHOOSE j \in first..(Len(s) + 1) :
                 /\ ~IsDigitAt(s, j)
                 /\ \A j2 \in first..(j - 1) : IsDigitAt(s, j2)
  IN  IF /\ (MatchAt("last", s, i) \/ MatchAt("past", s, i))
         /\ first > i + 4
         /\ after > first
         /\ IsSpaceAt(s, after)
         /\ MatchAt("season", s, SkipSpaces(s, after))
      THEN <<first, after - 1>>
      ELSE <<0, 0>>

\* the number of digits of sys.maxsize (2^63 - 1): a list cannot hold more
\* items than that, so building a longer one ends in MemoryError
SSIZE_T_MAX_DIGITS == 19

\* the digits of a str of digits that follow its leading zeros
Significant(digits) ==
  LET nonzero == {i \in 1..Len(digits) : At(digits, i) # "0"}
  IN  IF nonzero = {} THEN ""
      ELSE SubSeq(digits, CHOOSE i \in nonzero : \A j \in nonzero : i <= j, Len(digits))

\* base_start_year of _extract_season
BASE_START_YEAR == 2023

\* The outcome of _extract_season: the value returned, or the exception
\* raised.
Returned(value) == [raised |-> "", value |-> value]
Raised(exception) == [raised |-> exception, value |-> None]

\* values[0] if len(values) == 1 else values
FirstOrList(values) == IF Len(values) = 1 THEN Str(values[1]) ELSE List(values)

\* the compact code of one match of the range pattern
CompactRange(start_year, end_year) ==
  _compact_season(start_year,
                  Year(IF end_year < 100 THEN (start_year \div 100) * 100 + end_year
                       ELSE end_year))

\* compact_ranges, duplicates removed
CompactRanges(range_matches) ==
  Dedup([k \in 1..Len(range_matches) |->
           CompactRange(ParseInt(range_matches[k].start),
                        ParseInt(range_matches[k].end))])

\* compact_years, duplicates removed
CompactYears(year_matches) ==
  Dedup([k \in 1..Len(year_matches) |->
           _compact_season(ParseInt(year_matches[k]), None)])

\* the seasons of "last count seasons", the newest first
NewestFirst(count) ==
  [k \in 1..count |-> _compact_season(BASE_START_YEAR - (k - 1), None)]

\* the seasons of "last count seasons", the oldest first
LastSeasons(count) ==
  [k \in 1..count |-> _compact_season(BASE_START_YEAR - (count - k), None)]

\* seasons if len(seasons) > 1 else seasons[0]
ListOrFirst(seasons) == IF Len(seasons) > 1 THEN List(seasons) ELSE Str(seasons[1])

\* the branch of a match of the span pattern whose second group is digits:
\* int(digits) raises ValueError when digits is too long, and the list of
\* the seasons cannot be built when the count exceeds sys.maxsize
SpanSeasons(digits) ==
  IF Len(digits) > INT_MAX_STR_DIGITS THEN Raised("ValueError")
  ELSE IF Len(Significant(digits)) > SSIZE_T_MAX_DIGITS THEN Raised("MemoryError")
  ELSE Returned(ListOrFirst(LastSeasons(Max(1, ParseInt(digits)))))

\* the span pattern: span is the second group of its first match, <<0, 0>>
\* if it does not match
FromSpan(normalized_text, span) ==
  IF span = <<0, 0>> THEN Returned(None)
  ELSE SpanSeasons(SubSeq(normalized_text, span[1], span[2]))

\* the second group of re.search of the span pattern, <<0, 0>> if no match
SpanSearch(s, i) == IF i = 0 THEN <<0, 0>> ELSE SpanAt(s, i)

\* the relative references
FromPhrases(normalized_text) ==
  IF Contains("this season", normalized_text) THEN Returned(Str("2324"))
  ELSE IF Contains("last season", normalized_text) THEN Returned(Str("2223"))
  ELSE FromSpan(normalized_text,
                SpanSearch(normalized_text,
                           First({i \in 1..Len(normalized_text) :
                                    SpanAt(normalized_text, i) # <<0, 0>>})))

\* a cascade that looks for the relative references before the years
YearsLast(normalized_text, year_matches) ==
  IF FromPhrases(normalized_text) # Returned(None) THEN FromPhrases(normalized_text)
  ELSE IF year_matches # <<>> THEN Returned(FirstOrList(CompactYears(year_matches)))
  ELSE Returned(None)

\* the explicit single years
FromYears(normalized_text, year_matches) ==
  IF year_matches # <<>> THEN Returned(FirstOrList(CompactYears(year_matches)))
  ELSE FromPhrases(normalized_text)

\* the ranges
FromRanges(prompt, normalized_text, range_matches) ==
  IF range_matches # <<>> THEN Returned(FirstOrList(CompactRanges(range_matches)))
  ELSE FromYears(normalized_text, YearMatches(prompt))

_extract_season(prompt, normalized_text) ==
  FromRanges(prompt, normalized_text, RangeMatches(prompt, 1))

(***************************************************************************)
(* Player extraction.  nlp is the state of the module-level NLP:           *)
(*   "none"   spacy is not installed, NLP is None;                         *)
(*   "blank"  the model failed to load, NLP is a blank pipeline with a     *)
(*            sentencizer, whose documents have no entities;               *)
(*   "model"  en_core_web_sm is loaded.                                    *)
(* The entities of a document are an input: persons is the list of the     *)
(* texts of the spans labelled PERSON, in document order.                  *)
(***************************************************************************)
NlpStates == {"none", "blank", "model"}

\* [a-zA-Z.'-]
NameChars == LowerAZ \cup UpperAZ \cup {".", "'", "-"}

IsNameAt(s, i) == i >= 1 /\ i <= Len(s) /\ At(s, i) \in NameChars

IsUpperAt(s, i) == i >= 1 /\ i <= Len(s) /\ At(s, i) \in UpperAZ

\* the last index of the run of name characters that starts at i
NameRunEnd(s, i) ==
  CHOOSE j \in i..Len(s) :
    /\ \A j2 \in i..j : IsNameAt(s, j2)
    /\ ~IsNameAt(s, j + 1)

\* [A-Z][a-zA-Z.'-]+ can start at index i
NameStartsAt(s, i) == IsUpperAt(s, i) /\ IsNameAt(s, i + 1)

\* The group [A-Z][a-zA-Z.'-]+(?:\s+[A-Z][a-zA-Z.'-]+)? must be followed by
\* After(_), a test on the index of the last character of the group.
\* SecondEnds: the ends of a second name, after a first name that ends at
\* e, at which the test succeeds.
SecondEnds(s, e, After(_)) ==
  IF IsSpaceAt(s, e + 1) /\ NameStartsAt(s, SkipSpaces(s, e + 1))
  THEN {e2 \in (SkipSpaces(s, e + 1) + 1)..NameRunEnd(s, SkipSpaces(s, e + 1) + 1) :
          After(e2)}
  ELSE {}

\* the longest of the second names, or the end of the first name
LongestEnd(e, second_ends) ==
  IF second_ends # {} THEN Greatest(second_ends) ELSE e

\* good: the ends of the first name from which the match succeeds
GroupEndOf(s, After(_), good) ==
  IF good = {} THEN 0
  ELSE LongestEnd(Greatest(good), SecondEnds(s, Greatest(good), After))

\* The end of the group started at index g: the first success in the order
\* of a backtracking matcher, which prefers the longer first name, then the
\* presence of the second name, then the longer second name; 0 if there is
\* none.
GroupEnd(s, g, After(_)) ==
  IF ~NameStartsAt(s, g) THEN 0
  ELSE GroupEndOf(s, After,
                  {e \in (g + 1)..NameRunEnd(s, g + 1) :
                     SecondEnds(s, e, After) # {} \/ After(e)})

\* \s+and\s+ after index e, followed by the start of a name: the index of
\* that start, 0 if there is none
AfterAndAt(s, a) ==
  IF MatchAt("and", s, a) /\ IsSpaceAt(s, a + 3) /\ NameStartsAt(s, SkipSpaces(s, a + 3))
  THEN SkipSpaces(s, a + 3) ELSE 0

AfterAnd(s, e) ==
  IF IsSpaceAt(s, e + 1) THEN AfterAndAt(s, SkipSpaces(s, e + 1)) ELSE 0

\* the two groups, the first one s[g1..e1] and the second one from g2 on
CompareGroups(s, g1, e1, g2) ==
  <<SubSeq(s, g1, e1), SubSeq(s, g2, GroupEnd(s, g2, LAMBDA e : TRUE))>>

\* the groups when the first one is s[g1..e1]; e1 = 0: no match
CompareFrom(s, g1, e1) ==
  IF e1 = 0 THEN <<>> ELSE CompareGroups(s, g1, e1, AfterAnd(s, e1))

\* the match at index i of
\* \b[Cc]ompare\s+(NAME(?:\s+NAME)?)\s+and\s+(NAME(?:\s+NAME)?)
\* with NAME = [A-Z][a-zA-Z.'-]+: the two groups, <<>> if there is none
CompareAt(s, i) ==
  IF /\ Boundary(s, i - 1)
     /\ (MatchAt("Compare", s, i) \/ MatchAt("compare", s, i))
     /\ IsSpaceAt(s, i + 7)
  THEN CompareFrom(s, SkipSpaces(s, i + 7),
                   GroupEnd(s, SkipSpaces(s, i + 7), LAMBDA e : AfterAnd(s, e) # 0))
  ELSE <<>>

\* the match at index i, no match for i = 0
CompareSearch(s, i) == IF i = 0 THEN <<>> ELSE CompareAt(s, i)

\* the groups of re.search of the compare pattern, <<>> if no match
compare_match(s) ==
  CompareSearch(s, First({i \in 1..Len(s) : CompareAt(s, i) # <<>>}))

\* s[g..e], "" for e = 0
GroupText(s, g, e) == IF e = 0 THEN "" ELSE SubSeq(s, g, e)

\* the group of the match at index g of \b(NAME(?:\s+NAME)?)'s\b, "" if
\* there is none
PossessiveAt(s, g) ==
  IF Boundary(s, g - 1) /\ NameStartsAt(s, g)
  THEN GroupText(s, g, GroupEnd(s, g, LAMBDA x : MatchAt("'s", s, x + 1)
                                                   /\ Boundary(s, x + 2)))
  ELSE ""

\* the match at index g, no match for g = 0
PossessiveSearch(s, g) == IF g = 0 THEN "" ELSE PossessiveAt(s, g)

\* the group of re.search of the possessive pattern, "" if no match
poss_match(s) ==
  PossessiveSearch(s, First({g \in 1..Len(s) : PossessiveAt(s, g) # ""}))

\* {t.lower() for t in self.team_names}
known_team_names == Range(team_names_lower)

\* set(TEAM_ALIASES.keys()) | {v.lower() for v in TEAM_ALIASES.values()}
alias_names ==
  {TEAM_ALIASES[k].alias : k \in 1..Len(TEAM_ALIASES)}
    \cup {Lower(TEAM_ALIASES[k].canonical) : k \in 1..Len(TEAM_ALIASES)}

\* no candidate is taken for a team name
NeverTeamName(candidate) == FALSE

is_team_name(candidate) ==
  LET normalized_candidate == Strip(Lower(candidate), SpaceChars)
  IN  normalized_candidate \in known_team_names \/ normalized_candidate \in alias_names

\* while len(tokens) > 1 and tokens[0].lower() in PLAYER_LEADING_STOPWORDS
RECURSIVE DropLeading(_)
DropLeading(tokens) ==
  IF Len(tokens) > 1 /\ Lower(tokens[1]) \in PLAYER_LEADING_STOPWORDS
  THEN DropLeading(SubSeq(tokens, 2, Len(tokens))) ELSE tokens

\* while len(tokens) > 1 and tokens[-1].lower() in PLAYER_TRAILING_STOPWORDS
RECURSIVE DropTrailing(_)
DropTrailing(tokens) ==
  IF Len(tokens) > 1 /\ Lower(tokens[Len(tokens)]) \in PLAYER_TRAILING_STOPWORDS
  THEN DropTrailing(SubSeq(tokens, 1, Len(tokens) - 1)) ELSE tokens

\* clean_player_candidate from cleaned on
CleanTokens(cleaned) ==
  IF cleaned = "" THEN ""
  ELSE Strip(JoinWords(DropTrailing(DropLeading(Split(cleaned)))), SpaceChars)

clean_player_candidate(candidate) ==
  CleanTokens(Strip(CollapseSpaces(candidate), CharsOf(" ,.;:!?")))

\* {t.lower() for t in words.split()}
LowerTokens(words) == {Lower(t) : t \in Range(Split(words))}

\* {t.lower() for team in teams for t in team.split()}
TeamTokens(teams) == UNION {LowerTokens(teams[k]) : k \in 1..Len(teams)}

\* the tests of the loop over doc.ents on a cleaned candidate
KeptEntity(candidate, team_tokens) ==
  /\ candidate # ""
  /\ ~(LowerTokens(candidate) # {} /\ LowerTokens(candidate) \subseteq team_tokens)
  /\ ~is_team_name(candidate)

\* players after the loop over doc.ents
Recognised(persons, team_tokens) ==
  SelectSeq([k \in 1..Len(persons) |-> clean_player_candidate(persons[k])],
            LAMBDA candidate : KeptEntity(candidate, team_tokens))

\* a cleaned group of a fallback pattern, appended unless it is empty or a
\* team name
FallbackPlayer(candidate) ==
  IF candidate # "" /\ ~is_team_name(candidate) THEN <<candidate>> ELSE <<>>

\* the players of the groups of the compare pattern
ComparedPlayers(groups) ==
  IF groups = <<>> THEN <<>>
  ELSE FallbackPlayer(clean_player_candidate(groups[1]))
         \o FallbackPlayer(clean_player_candidate(groups[2]))

\* the player of the group of the possessive pattern
PossessivePlayer(group) ==
  IF group = "" THEN <<>> ELSE FallbackPlayer(clean_player_candidate(group))

\* players after the fallback patterns
WithFallback(players, prompt, teams) ==
  IF players = <<>> /\ teams = <<>>
  THEN ComparedPlayers(compare_match(prompt)) \o PossessivePlayer(poss_match(prompt))
  ELSE players

_extract_players(nlp, persons, prompt, teams) ==
  Dedup(WithFallback(IF nlp = "model" THEN Recognised(persons, TeamTokens(teams))
                     ELSE <<>>,
                     prompt, teams))


HashSeeds == 0..(NumHashSeeds - 1)

(***************************************************************************)
(* The entities of a recognition model.  What a model labels PERSON is     *)
(* not fixed by the code: any list of at most MaxEnts spans of one or two  *)
(* capitalised words, not overlapping and in text order, may be reported.  *)
(***************************************************************************)
Letters == LowerAZ \cup UpperAZ \cup CharsOf(OTHER_LOWER) \cup CharsOf(OTHER_UPPER)

\* the capitalised word a token starts with, "" if it starts with none
CapitalisedWord(token) ==
  LET stops == {i \in 1..Len(token) : At(token, i) \notin Letters}
      end == IF stops = {} THEN Len(token)
             ELSE (CHOOSE i \in stops : \A j \in stops : i <= j) - 1
  IN  IF token # "" /\ At(token, 1) \in UpperAZ \cup CharsOf(OTHER_UPPER)
      THEN SubSeq(token, 1, end) ELSE ""

\* the spans <<first token, number of tokens>> that can be an entity
EntitySpans(text) ==
  LET tokens == Split(text)
      Cap(k) == CapitalisedWord(tokens[k])
  IN  {<<k, 1>> : k \in {j \in 1..Len(tokens) : Cap(j) # ""}}
        \cup {<<k, 2>> : k \in {j \in 1..(Len(tokens) - 1) :
                                  Cap(j) = tokens[j] /\ Cap(j + 1) # ""}}

EntityText(text, span) ==
  LET tokens == Split(text)
  IN  IF span[2] = 1 THEN CapitalisedWord(tokens[span[1]])
      ELSE tokens[span[1]] \o " " \o CapitalisedWord(tokens[span[1] + 1])

\* the lists of PERSON entities that may be reported for text
EntityLists(text) ==
  LET spans == EntitySpans(text)
      Apart(a, b) == a[1] + a[2] <= b[1] \/ b[1] + b[2] <= a[1]
      chosen == {S \in SUBSET spans :
                   /\ Cardinality(S) <= MaxEnts
                   /\ \A a \in S : \A b \in S : a = b \/ Apart(a, b)}
      Ordered(S) == LET starts == Ascending({a[1] : a \in S})
                    IN  [k \in 1..Len(starts) |->
                           EntityText(text, CHOOSE a \in S : a[1] = starts[k])]
  IN  {Ordered(S) : S \in chosen}

(***************************************************************************)
(* The extractors are functions of the text and of the build; their values *)
(* on the input texts are tabulated.                                       *)
(***************************************************************************)
teams_of ==
  [rf \in BOOLEAN |-> [hash_seed \in HashSeeds |-> [text \in Texts |->
     _extract_teams(rf, hash_seed, normalized[text])]]]

metrics_of ==
  [rf \in BOOLEAN |-> [text \in Texts |-> _extract_metrics(rf, normalized[text])]]

stat_type_of ==
  [rf \in BOOLEAN |-> [text \in Texts |->
     _extract_stat_type(normalized[text], metrics_of[rf][text])]]

season_of == [text \in Texts |-> _extract_season(text, normalized[text])]

league_of == [text \in Texts |-> _extract_league(normalized[text])]

chart_type_of == [text \in Texts |-> _extract_chart_type(normalized[text])]

ents_of == [text \in Texts |-> EntityLists(text)]

\* doc.ents for a prompt: nothing without a statistical model
Ents(nlp, prompt) ==
  IF nlp = "model" /\ IsText(prompt)
  THEN ents_of[StripPromptPrefix(prompt.text)] ELSE {<<>>}

(***************************************************************************)
(* parse: the assembly of the descriptor.                                  *)
(***************************************************************************)
\* a default descriptor that lacks a key
PartialParse ==
  [team |-> None, league |-> None, player |-> None, season |-> None,
   stat_type |-> Str("standard"), metric |-> None, metric_type |-> None]

DEFAULT_PARSE ==
  [team |-> None, league |-> None, player |-> None, season |-> None,
   stat_type |-> Str("standard"), metric |-> None, metric_type |-> None,
   chart_type |-> None]

\* a table DEFAULT_METRICS without its last entry
WithoutLast(entries) ==
  [stat_type \in {entries[k].stat_type : k \in 1..(Len(entries) - 1)} |->
     LET k == CHOOSE j \in 1..Len(entries) : entries[j].stat_type = stat_type
     IN  entries[k].metrics]

\* the table DEFAULT_METRICS as a mapping from stat type to list
DefaultMetricsTable(entries) ==
  [stat_type \in {entries[k].stat_type : k \in 1..Len(entries)} |->
     LET k == CHOOSE j \in 1..Len(entries) : entries[j].stat_type = stat_type
     IN  entries[k].metrics]

\* dict(base) followed by the assignments result[key] = update[key]
Update(base, update) ==
  [key \in DOMAIN base \cup DOMAIN update |->
     IF key \in DOMAIN update THEN update[key] ELSE base[key]]

\* a decision table that looks at the teams before the players
TeamBeforePlayer(normalized_text, teams, players, league) ==
  IF Len(teams) > 0 THEN Str("team")
  ELSE IF Len(players) > 0 THEN Str("player")
  ELSE None

_infer_metric_type(normalized_text, teams, players, league) ==
  IF /\ Len(teams) >= 2
     /\ \/ Contains(" vs ", normalized_text)
        \/ Contains(" versus ", normalized_text)
        \/ Contains(" against ", normalized_text)
        \/ Contains("compare", normalized_text)
  THEN Str("match")
  ELSE IF Len(players) > 0 THEN Str("player")
  ELSE IF Len(teams) > 0 THEN Str("team")
  ELSE IF \/ ~IsNone(league)
          \/ Contains("standings", normalized_text)
          \/ Contains("table", normalized_text)
  THEN Str("league")
  ELSE None

\* a lookup that never finds the stat type
AlwaysAll(default_metrics, stat_type) ==
  [value |-> List(<<"all">>), shared |-> ""]

\* DEFAULT_METRICS.get(stat_type, ["all"]): the list and, when it is a list
\* of the table, the key under which the table holds that same list
DefaultMetricsGet(default_metrics, stat_type) ==
  IF stat_type \in DOMAIN default_metrics
  THEN [value |-> List(default_metrics[stat_type]), shared |-> stat_type]
  ELSE [value |-> List(<<"all">>), shared |-> ""]

\* an assembly without the backfill
NoBackfill(default_metrics, stat_type, metric) ==
  [value |-> metric, shared |-> ""]

\* result["metric"] after the backfill, and the key of DEFAULT_METRICS whose
\* list it is ("" when it is none of them)
Backfill(default_metrics, stat_type, metric) ==
  IF IsNone(metric) THEN DefaultMetricsGet(default_metrics, stat_type)
  ELSE [value |-> metric, shared |-> ""]

\* a chart default that is always "table"
AlwaysTable(chart_type, metric_type, metric) ==
  IF ~IsNone(chart_type) THEN chart_type ELSE Str("table")

\* result["chart_type"] after the chart default
ChartDefault(chart_type, metric_type, metric) ==
  IF ~IsNone(chart_type) THEN chart_type
  ELSE IF /\ metric_type \in {Str("team"), Str("player"), Str("match")}
          /\ IsList(metric)
          /\ Len(metric.items) > 1
  THEN Str("bar") ELSE Str("table")

\* the descriptor, from the extracted fields and the backfilled metric
Assemble(teams, players, league, season, stat_type, filled, metric_type, chart_type) ==
  [raised |-> "",
   value |-> Update(DEFAULT_PARSE,
               [team |-> _as_scalar_or_list(teams),
                player |-> _as_scalar_or_list(players),
                league |-> Or(league, Str(DEFAULT_LEAGUE)),
                season |-> season,
                stat_type |-> Str(stat_type),
                metric |-> filled.value,
                metric_type |-> metric_type,
                chart_type |-> ChartDefault(chart_type, metric_type, filled.value)]),
   shared |-> filled.shared]

Extracted(default_metrics, normalized_text, teams, players, league, metrics, stat_type, season, chart_type) ==
  Assemble(teams, players, league, season, stat_type,
           Backfill(default_metrics, stat_type, _as_scalar_or_list(metrics)),
           _infer_metric_type(normalized_text, teams, players, league),
           chart_type)

ParseFields(nlp, default_metrics, persons, text, normalized_text, teams, metrics, stat_type, season) ==
  IF season.raised # ""
  THEN [raised |-> season.raised, value |-> <<>>, shared |-> ""]
  ELSE Extracted(default_metrics, normalized_text, teams,
                 _extract_players(nlp, persons, text, teams),
                 Or(league_of[text], _infer_league_from_teams(teams)),
                 metrics, stat_type, season.value, chart_type_of[text])

ParseText(rf, nlp, hash_seed, default_metrics, persons, text) ==
  ParseFields(nlp, default_metrics, persons, text, normalized[text],
              teams_of[rf][hash_seed][text], metrics_of[rf][text],
              stat_type_of[rf][text], season_of[text])

\* The outcome of parse(prompt) in a process with the given build (rf, nlp),
\* hash seed and current content of DEFAULT_METRICS, when the recognition
\* model reports persons: the exception raised or the descriptor returned,
\* and the key of DEFAULT_METRICS whose list the descriptor holds ("" when it
\* holds none).
parse(rf, nlp, hash_seed, default_metrics, persons, prompt) ==
  IF ~IsText(prompt)
  THEN [raised |-> "",
        value |-> Update(DEFAULT_PARSE, [league |-> Str(DEFAULT_LEAGUE)]),
        shared |-> ""]
  ELSE ParseText(rf, nlp, hash_seed, default_metrics, persons,
                 StripPromptPrefix(prompt.text))

\* FetchData(parsed).fetch_data(): the service the descriptor is routed to
fetch_data(parsed) ==
  IF /\ IsList(parsed.team)
     /\ Len(parsed.team.items) = 2
     /\ parsed.metric_type = Str("match")
  THEN "get_match_stats"
  ELSE IF /\ parsed.player \notin {None, Str(""), List(<<>>)}
          /\ parsed.metric_type = Str("player")
  THEN "get_player_stats"
  ELSE IF parsed.metric_type = Str("team") THEN "get_team_stats"
  ELSE "get_league_table"

(***************************************************************************)
(* The program as a state machine.  A process is started in a build (with  *)
(* or without rapidfuzz, with or without a recognition model) and with a   *)
(* hash seed; its callers call parse again and again; the process may be   *)
(* restarted.                                                              *)
(***************************************************************************)
VARIABLES
  rapidfuzz,        \* rapidfuzz is installed: fuzz, process and the mapping module load
  NLP,              \* the module-level NLP: "none" (no spacy), "blank" or "model"
  PYTHONHASHSEED,   \* the hash seed of the running process
  DEFAULT_METRICS,  \* the module-level table, as the process holds it now
  pc,               \* "idle", "called" (parse is running) or "returned"
  argument,         \* the argument of the current or last call
  entities,         \* the PERSON entities the recognition model reports for it
  outcome,          \* the outcome of the last call: exception raised, value returned
  aliased,          \* the key of DEFAULT_METRICS whose list outcome holds, or ""
  previous,         \* the outcome of the call before, when it had the same argument
  mutations         \* the number of in-place changes callers have made

vars == <<rapidfuzz, NLP, PYTHONHASHSEED, DEFAULT_METRICS, pc, argument, entities,
          outcome, aliased, previous, mutations>>

NoOutcome == [raised |-> "", value |-> <<>>]

Init ==
  /\ rapidfuzz \in BOOLEAN
  /\ NLP \in NlpStates
  /\ PYTHONHASHSEED \in HashSeeds
  /\ DEFAULT_METRICS = DefaultMetricsTable(DEFAULT_METRICS_INIT)
  /\ pc = "idle"
  /\ argument = NonText("NoneType")
  /\ entities = <<>>
  /\ outcome = NoOutcome
  /\ aliased = ""
  /\ previous = NoOutcome
  /\ mutations = 0

\* a caller calls parse_prompt(p); ents is what the recognition model
\* reports for p
Call(p, ents) ==
  /\ pc \in {"idle", "returned"}
  /\ pc' = "called"
  /\ argument' = p
  /\ entities' = ents
  /\ previous' = IF pc = "returned" /\ p = argument /\ ents = entities
                 THEN outcome ELSE NoOutcome
  /\ outcome' = NoOutcome
  /\ aliased' = ""
  /\ UNCHANGED <<rapidfuzz, NLP, PYTHONHASHSEED, DEFAULT_METRICS, mutations>>

\* the call ends: what it raised or returned is the outcome
Return(done) ==
  /\ outcome' = [raised |-> done.raised, value |-> done.value]
  /\ aliased' = done.shared

\* PARSER.parse(prompt) runs and returns or raises
Parse ==
  /\ pc = "called"
  /\ Return(parse(rapidfuzz, NLP, PYTHONHASHSEED, DEFAULT_METRICS, entities, argument))
  /\ pc' = "returned"
  /\ UNCHANGED <<rapidfuzz, NLP, PYTHONHASHSEED, DEFAULT_METRICS, argument, entities,
                 previous, mutations>>

\* the program is run again: a new process imports the module, with its own
\* hash seed; the outcome of the last call of the old process is kept for
\* comparison
Restart(seed) ==
  /\ pc = "returned"
  /\ PYTHONHASHSEED' = seed
  /\ DEFAULT_METRICS' = DefaultMetricsTable(DEFAULT_METRICS_INIT)
  /\ aliased' = ""
  /\ UNCHANGED <<rapidfuzz, NLP, pc, argument, entities, outcome, previous, mutations>>

\* a caller changes in place a list of the descriptor it was handed: it
\* appends an element or removes the last one
Mutate(key, change) ==
  /\ pc = "returned"
  /\ outcome.raised = ""
  /\ mutations < MaxMutations
  /\ IsList(outcome.value[key])
  /\ LET items == outcome.value[key].items
         changed == IF change = "append" THEN Append(items, "x")
                    ELSE SubSeq(items, 1, Len(items) - 1)
     IN  /\ outcome' = [outcome EXCEPT !.value[key] = List(changed)]
         /\ DEFAULT_METRICS' =
              IF key = "metric" /\ aliased # ""
              THEN [DEFAULT_METRICS EXCEPT ![aliased] = changed]
              ELSE DEFAULT_METRICS
  /\ mutations' = mutations + 1
  /\ UNCHANGED <<rapidfuzz, NLP, PYTHONHASHSEED, pc, argument, entities, aliased, previous>>

Next ==
  \/ \E p \in Inputs : \E ents \in Ents(NLP, p) : Call(p, ents)
  \/ Parse
  \/ \E seed \in HashSeeds : Restart(seed)

Spec == Init /\ [][Next]_vars

\* the inputs of the callers that change the lists they are handed
CallerInputs ==
  {NonText("NoneType"), Text("?!"), Text("keeper ranking"), Text("passing"),
   Text("Arsenal vs Chelsea"), Text("goals and assists trend 2020 2021")}

\* the callers also change the lists they are handed
NextCaller ==
  \/ \E p \in CallerInputs : \E ents \in Ents(NLP, p) : Call(p, ents)
  \/ Parse
  \/ \E key \in {"team", "player", "season", "metric"} :
       \E change \in {"append", "pop"} : Mutate(key, change)

SpecCaller == Init /\ [][NextCaller]_vars

(***************************************************************************)
(* Properties of the descriptor.                                           *)
(***************************************************************************)
\* the last call has returned a descriptor
Completed == pc = "returned" /\ outcome.raised = ""

\* the input is not a str, or is a str that is empty after trimming
Blank(p) == p.type # "str" \/ Strip(p.text, SpaceChars) = ""

\* the last call has returned a descriptor for a text
CompletedText == Completed /\ ~Blank(argument)

\* the last call has returned a descriptor for this text
CompletedOn(s) == Completed /\ argument = Text(s)

\* the text the extractors were run on in the last call
Extracted_text == StripPromptPrefix(argument.text)

\* the elements of a field: none, the scalar, or those of the list
Elements(v) == v.items

DescriptorKeys ==
  {"team", "league", "player", "season", "stat_type", "metric", "metric_type",
   "chart_type"}

\* C1: whatever the input (any str, any value that is not a str), the
\* descriptor returned has exactly the eight keys team, league, player,
\* season, stat_type, metric, metric_type and chart_type.
C1_ExactKeys == Completed => DOMAIN outcome.value = DescriptorKeys

C1_Witness ==
  /\ Completed
  /\ argument = NonText("int")
  /\ DOMAIN outcome.value = DescriptorKeys

\* C2 as stated: in every descriptor returned, for every input, blank and
\* non-str inputs included, metric is not null.
C2_Original == Completed => ~IsNone(outcome.value.metric)

\* C2 amended: in every descriptor returned for a str that is not empty after
\* trimming, metric is not null: it is the collapsed list of the phrases
\* extracted, or the list of DEFAULT_METRICS for the stat type of the
\* descriptor, or ["all"].
C2_MetricOfText ==
  CompletedText =>
    /\ ~IsNone(outcome.value.metric)
    /\ \/ /\ metrics_of[rapidfuzz][Extracted_text] # <<>>
          /\ outcome.value.metric =
               _as_scalar_or_list(metrics_of[rapidfuzz][Extracted_text])
       \/ /\ Elements(outcome.value.stat_type)[1] \in DOMAIN DEFAULT_METRICS
          /\ outcome.value.metric =
               List(DEFAULT_METRICS[Elements(outcome.value.stat_type)[1]])
       \/ outcome.value.metric = List(<<"all">>)

C2_Witness ==
  /\ CompletedOn("?!")
  /\ aliased = "standard"
  /\ outcome.value.metric = List(<<"goals", "assists", "minutes">>)

\* C3: for an input that is not a str, or is empty after trimming, the
\* descriptor has league "Big 5 European Leagues Combined", stat_type
\* "standard" and every other field null.
C3_DefaultDescriptor ==
  Completed /\ Blank(argument) =>
    outcome.value =
      [team |-> None, league |-> Str("Big 5 European Leagues Combined"),
       player |-> None, season |-> None, stat_type |-> Str("standard"),
       metric |-> None, metric_type |-> None, chart_type |-> None]

C3_Witness ==
  /\ CompletedOn(" \t\n")
  /\ outcome.value.league = Str("Big 5 European Leagues Combined")
  /\ IsNone(outcome.value.metric)

\* C4 as stated: no call of parse raises; every call returns a descriptor.
C4_NeverRaises == pc = "returned" => outcome.raised = ""

\* the shape of a collapsed field holding these values
Collapse(values, v) ==
  \/ Len(values) = 0 /\ v = None
  \/ Len(values) = 1 /\ v = Str(values[1])
  \/ Len(values) >= 2 /\ v = List(values)

\* null, a scalar, or a list of at least two elements
Collapsed(v) == IsNone(v) \/ IsStr(v) \/ (IsList(v) /\ Len(v.items) >= 2)

\* C5: team, player, season and an extracted metric are null for no
\* candidate, the scalar for one, a list of two or more otherwise; no field
\* is an empty list or a list of one element.
C5_Collapsing ==
  /\ Completed =>
       \A key \in {"team", "player", "season", "metric"} :
          Collapsed(outcome.value[key])
  /\ CompletedText =>
       /\ \E seed \in HashSeeds :
             Collapse(teams_of[rapidfuzz][seed][Extracted_text], outcome.value.team)
       /\ metrics_of[rapidfuzz][Extracted_text] # <<>> =>
             Collapse(metrics_of[rapidfuzz][Extracted_text], outcome.value.metric)

C5_Witness ==
  /\ CompletedOn("Liverpool possession stats past 5 seasons")
  /\ outcome.value.team = Str("Liverpool")
  /\ outcome.value.metric = Str("possession")
  /\ outcome.value.season = List(<<"19", "20", "21", "22", "23">>)

\* C6 as stated: two calls with the same input return the same descriptor,
\* also when the program was started anew in between.
C6_Deterministic ==
  pc = "returned" /\ previous # NoOutcome => outcome = previous

\* C7 as stated: no caller can change the table DEFAULT_METRICS through a
\* descriptor it was handed.
C7_TableUntouched == DEFAULT_METRICS = DefaultMetricsTable(DEFAULT_METRICS_INIT)

\* the lists of DEFAULT_METRICS as the source writes them
LiteralDefaults ==
  [standard |-> <<"goals", "assists", "minutes">>,
   keeper |-> <<"saves", "clean sheets", "goals conceded">>,
   shooting |-> <<"shots", "shots on target", "goals">>,
   passing |-> <<"passes completed", "pass accuracy", "passes attempted">>,
   defense |-> <<"tackles", "interceptions", "clearances">>,
   possession |-> <<"possession %", "touches", "dribbles completed">>]

\* C8: when the text holds no metric phrase, metric is the list of
\* DEFAULT_METRICS for the stat type of the descriptor, for each of the six
\* stat types.
C8_Backfill ==
  CompletedText /\ metrics_of[rapidfuzz][Extracted_text] = <<>> =>
    /\ Elements(outcome.value.stat_type)[1] \in DOMAIN LiteralDefaults
    /\ outcome.value.metric =
         List(LiteralDefaults[Elements(outcome.value.stat_type)[1]])

C8_Witness ==
  /\ CompletedOn("keeper ranking")
  /\ outcome.value.stat_type = Str("keeper")
  /\ outcome.value.metric = List(<<"saves", "clean sheets", "goals conceded">>)

\* C9 as stated: for "Compare Real Madrid and Barcelona goals in La Liga
\* 2022/23" team is ["Real Madrid", "Barcelona"], league "ESP-La Liga",
\* season "2223", metric_type "match" or "team", chart_type "bar".
C9_Original ==
  CompletedOn("Compare Real Madrid and Barcelona goals in La Liga 2022/23") =>
    /\ outcome.value.team = List(<<"Real Madrid", "Barcelona">>)
    /\ outcome.value.league = Str("ESP-La Liga")
    /\ outcome.value.season = Str("2223")
    /\ outcome.value.metric_type \in {Str("match"), Str("team")}
    /\ outcome.value.chart_type = Str("bar")

\* C9 amended: for that text team is ["Barcelona", "Real Madrid"], the order
\* of the registry and not of the text, league "ESP-La Liga", season "2223",
\* metric_type "match", chart_type "bar".
C9_RegistryOrder ==
  CompletedOn("Compare Real Madrid and Barcelona goals in La Liga 2022/23") =>
    /\ outcome.value.team = List(<<"Barcelona", "Real Madrid">>)
    /\ outcome.value.league = Str("ESP-La Liga")
    /\ outcome.value.season = Str("2223")
    /\ outcome.value.metric_type = Str("match")
    /\ outcome.value.chart_type = Str("bar")

C9_Witness ==
  /\ CompletedOn("Compare Real Madrid and Barcelona goals in La Liga 2022/23")
  /\ Elements(outcome.value.team)[1] = "Barcelona"

\* C10: for "Show me Arsenal's expected goals in the 2023 Premier League
\* season" team is "Arsenal", league "ENG-Premier League", metric the scalar
\* "expected goals", season "23" and stat_type "shooting", which comes from
\* the metric hints as no stat-type keyword is in the text.
C10_Arsenal ==
  CompletedOn("Show me Arsenal's expected goals in the 2023 Premier League season") =>
    /\ outcome.value.team = Str("Arsenal")
    /\ outcome.value.league = Str("ENG-Premier League")
    /\ outcome.value.metric = Str("expected goals")
    /\ outcome.value.season = Str("23")
    /\ outcome.value.stat_type = Str("shooting")
    /\ IsNone(FirstHit(STAT_TYPE_PATTERNS, normalized[Extracted_text]))

C10_Witness ==
  /\ CompletedOn("Show me Arsenal's expected goals in the 2023 Premier League season")
  /\ outcome.value.metric = Str("expected goals")
  /\ NLP = "model"

(***************************************************************************)
(* Properties of the season codes.                                         *)
(***************************************************************************)
\* a season written as YYYY, "/" or "-", YY
SeasonText(s) ==
  /\ Len(s) = 7
  /\ \A i \in {1, 2, 3, 4, 6, 7} : IsDigitAt(s, i)
  /\ At(s, 5) \in {"-", "/"}

\* C11 as stated: for a text that is a season YYYY/YY or YYYY-YY, with any
\* four digits YYYY and any two digits YY, season is the last two digits
\* of YYYY followed by YY.
C11_RoundTrip ==
  Completed /\ argument.type = "str" /\ SeasonText(argument.text) =>
    outcome.value.season =
      Str(SubSeq(argument.text, 3, 4) \o SubSeq(argument.text, 6, 7))

\* a code of two digits, or of four digits whose second pair is the year
\* after the first pair
SeasonCode(code) ==
  /\ Len(code) \in {2, 4}
  /\ \A i \in 1..Len(code) : IsDigitAt(code, i)
  /\ Len(code) = 4 =>
       ParseInt(SubSeq(code, 3, 4)) = (ParseInt(SubSeq(code, 1, 2)) + 1) % 100

\* C12 as stated: every season code of a descriptor is two or four digits,
\* and in a code of four digits the second pair is the first pair plus one
\* modulo 100, whatever range the text held.
C12_SeasonCodes ==
  Completed =>
    \A k \in 1..Len(Elements(outcome.value.season)) :
       SeasonCode(Elements(outcome.value.season)[k])

NoDuplicates(values) ==
  \A i \in 1..Len(values) : \A j \in 1..Len(values) :
     i # j => values[i] # values[j]

\* C13 as stated: no list of a descriptor (team, player, season, metric)
\* holds an element twice, the list of "last N seasons" included, for every
\* N >= 1.
C13_NoDuplicates ==
  Completed =>
    \A key \in {"team", "player", "season", "metric"} :
       NoDuplicates(Elements(outcome.value[key]))

(***************************************************************************)
(* Properties of the players.                                              *)
(***************************************************************************)
\* what the two fallback patterns give for a text
FallbackPlayers(prompt) == Dedup(WithFallback(<<>>, prompt, <<>>))

\* C14 as stated: without a recognition model the players of every call,
\* those whose text names a team included, are what the fallback patterns
\* ("compare X and Y", "X's") give.
C14_FallbackAlways ==
  CompletedText /\ NLP \in {"none", "blank"} =>
    outcome.value.player = _as_scalar_or_list(FallbackPlayers(Extracted_text))

\* the lower-case forms of the team names, the aliases and their canonical
\* names
TeamOrAliasNames ==
  {Lower(team_names[k]) : k \in 1..Len(team_names)}
    \cup {Lower(TEAM_ALIASES[k].alias) : k \in 1..Len(TEAM_ALIASES)}
    \cup {Lower(TEAM_ALIASES[k].canonical) : k \in 1..Len(TEAM_ALIASES)}

\* the player is no team name and its tokens are not all tokens of one team
NoTeam(player, teams) ==
  /\ Lower(player) \notin TeamOrAliasNames
  /\ \A k \in 1..Len(teams) :
        ~(LowerTokens(player) \subseteq LowerTokens(teams[k]))

\* C18: no player of a descriptor is, letter case apart, a team name or an
\* alias, and none has all its tokens among the tokens of one team of the
\* same descriptor; on the recognition path and on the fallback path.
C18_NoTeamAsPlayer ==
  Completed =>
    \A k \in 1..Len(Elements(outcome.value.player)) :
       NoTeam(Elements(outcome.value.player)[k], Elements(outcome.value.team))

C18_Witness ==
  /\ CompletedOn("PSG & Inter xg")
  /\ NLP = "model"
  /\ entities = <<"PSG", "Inter">>
  /\ outcome.value.team = List(<<"Paris S-G", "Inter Milan">>)
  /\ IsNone(outcome.value.player)

(***************************************************************************)
(* Properties of the league.                                               *)
(***************************************************************************)
\* the entries of LEAGUE_PATTERNS with a keyword in the text
LeagueHits(normalized_text) ==
  {k \in 1..Len(LEAGUE_PATTERNS) :
     \E j \in 1..Len(LEAGUE_PATTERNS[k].patterns) :
        Contains(LEAGUE_PATTERNS[k].patterns[j], normalized_text)}

\* the hits of each input text
league_hits == [text \in Texts |-> LeagueHits(normalized[text])]

\* the league of the descriptor by the priority rule, for these hits
LeagueByPriority(hits, league, normalized_text) ==
  IF hits # {} THEN league = Str(LEAGUE_PATTERNS[Least(hits)].label)
  ELSE \E seed \in HashSeeds :
          league = Or(_infer_league_from_teams(
                        teams_of[rapidfuzz][seed][Extracted_text]),
                      Str(DEFAULT_LEAGUE))

\* C15: when a keyword of LEAGUE_PATTERNS is in the text the league is the
\* first entry of the table, in table order, with a keyword in the text,
\* whatever the teams; the teams decide only when no keyword is in the text.
C15_LeaguePriority ==
  CompletedText =>
    LeagueByPriority(league_hits[Extracted_text],
                     outcome.value.league, normalized[Extracted_text])

C15_Witness ==
  /\ CompletedOn("Juventus la liga epl")
  /\ outcome.value.team = Str("Juventus")
  /\ outcome.value.league = Str("ENG-Premier League")

\* the leagues whose group lists one of the teams
LeaguesOf(teams) ==
  {LEAGUE_TEAM_GROUPS[k].label :
     k \in {j \in 1..Len(LEAGUE_TEAM_GROUPS) :
              Range(teams) \cap Range(LEAGUE_TEAM_GROUPS[j].teams) # {}}}

\* what the inference returns for teams of these leagues
Inferred(leagues, league) ==
  \/ Cardinality(leagues) = 1 /\ league = Str(CHOOSE l \in leagues : TRUE)
  \/ Cardinality(leagues) >= 2 /\ league = Str("Big 5 European Leagues Combined")
  \/ Cardinality(leagues) = 0 /\ league = None

\* C16: without a league keyword in the text, the inference gives the
\* league common to the teams with a known league, "Big 5 European Leagues
\* Combined" when they are of two or more leagues, and null when no team has
\* a known league.
C16_LeagueInference ==
  CompletedText /\ league_hits[Extracted_text] = {} =>
    /\ Inferred(LeaguesOf(Elements(outcome.value.team)),
                _infer_league_from_teams(Elements(outcome.value.team)))
    /\ outcome.value.league =
         Or(_infer_league_from_teams(Elements(outcome.value.team)),
            Str(DEFAULT_LEAGUE))

C16_Witness ==
  /\ CompletedOn("PSG & Inter xg")
  /\ LeaguesOf(Elements(outcome.value.team)) = {"FRA-Ligue 1", "ITA-Serie A"}
  /\ outcome.value.league = Str("Big 5 European Leagues Combined")

(***************************************************************************)
(* Properties of the teams.                                                *)
(***************************************************************************)
\* teams is the teams of the alias pass, then those of the exact pass, each
\* once, then teams that only the fuzzy pass finds
StagedOrder(teams, early, candidates) ==
  /\ NoDuplicates(teams)
  /\ Len(early) <= Len(teams)
  /\ SubSeq(teams, 1, Len(early)) = early
  /\ \A k \in (Len(early) + 1)..Len(teams) :
        \E candidate \in candidates :
           matched[rapidfuzz][candidate] = <<teams[k]>>

\* the teams of the alias pass and of the exact pass, and the windows of
\* the fuzzy pass, for each input text
early_teams ==
  [text \in Texts |->
     Dedup(AliasTeams(normalized[text]) \o ExactTeams(normalized[text]))]

candidates_of == [text \in Texts |-> Range(Candidates(normalized[text]))]

\* C17: team holds each team once, at the place of its first discovery by
\* the alias pass (table order), then the exact pass (registry order), then
\* the fuzzy pass: the teams of the alias and exact passes come before the
\* teams that only the fuzzy pass finds.
C17_TeamOrder ==
  CompletedText =>
    StagedOrder(Elements(outcome.value.team), early_teams[Extracted_text],
                candidates_of[Extracted_text])

C17_Witness ==
  /\ CompletedOn("iverpool arsenal psg")
  /\ outcome.value.team = List(<<"Paris S-G", "Arsenal", "Liverpool">>)

(***************************************************************************)
(* Properties of the metrics.                                              *)
(***************************************************************************)
\* the indices where the phrase occurs in the text
Occurrences(phrase, text) == {i \in 1..Len(text) : MatchAt(phrase, text, i)}

\* the span of the occurrence at index i
SpanOf(phrase, i) == <<i - 1, i - 1 + Len(phrase)>>

\* span k is the leftmost occurrence of phrase k that is free of the spans
\* claimed before
LeftmostFree(phrase, text, span, before) ==
  /\ span[1] + 1 \in Occurrences(phrase, text)
  /\ span = SpanOf(phrase, span[1] + 1)
  /\ ~Overlaps(span, before)
  /\ \A i \in Occurrences(phrase, text) :
        i < span[1] + 1 => Overlaps(SpanOf(phrase, i), before)

Allocated(run, text) ==
  /\ Len(run.found) = Len(run.occupied_spans)
  /\ NoDuplicates(run.found)
  /\ \A k \in 1..Len(run.found) :
        /\ LeftmostFree(Strip(Lower(run.found[k]), SpaceChars), text,
                        run.occupied_spans[k], SubSeq(run.occupied_spans, 1, k - 1))
        /\ run.found[k] \in Range(metric_phrases[rapidfuzz])

\* the run of the metric extraction on each input text, in each build
metric_spans ==
  [rf \in BOOLEAN |-> [text \in Texts |-> MetricSpans(rf, normalized[text])]]

\* C19 as stated: the spans claimed in a run of the metric extraction do not
\* overlap, no phrase is recorded twice, and the span of a recorded phrase
\* is its leftmost occurrence that is free of the spans claimed before.
C19_SpanAllocation ==
  CompletedText =>
    Allocated(metric_spans[rapidfuzz][Extracted_text],
              normalized[Extracted_text])

\* the occurrence of short at index i lies inside an occurrence of a longer
\* phrase of the lexicon
InsideLonger(short, i, text, phrases) ==
  \E k \in 1..Len(phrases) :
     /\ Len(phrases[k]) > Len(short)
     /\ \E j \in Occurrences(phrases[k], text) :
           j <= i /\ i + Len(short) <= j + Len(phrases[k])

\* the phrases that occur in the text, and only inside longer phrases
OnlyInsideLonger(text, phrases) ==
  {k \in 1..Len(phrases) :
     /\ Occurrences(phrases[k], text) # {}
     /\ \A i \in Occurrences(phrases[k], text) :
           InsideLonger(phrases[k], i, text, phrases)}

\* C20 as stated: a phrase that occurs in the text only inside occurrences
\* of a longer phrase is not reported, however often the longer phrase
\* occurs.
C20_Original ==
  CompletedText =>
    \A k \in OnlyInsideLonger(normalized[Extracted_text], metric_phrases[rapidfuzz]) :
       metric_phrases[rapidfuzz][k] \notin Range(Elements(outcome.value.metric))

\* the index of a key in a table of keys
IndexIn(keys, key) == Least({k \in 1..Len(keys) : keys[k] = key})

\* phrases is table sorted by decreasing length, keys of one length in the
\* order of the table
LongestFirstOf(phrases, table) ==
  /\ Range(phrases) = Range(table)
  /\ Len(phrases) = Len(table)
  /\ \A k \in 1..(Len(phrases) - 1) :
        \/ Len(phrases[k]) > Len(phrases[k + 1])
        \/ /\ Len(phrases[k]) = Len(phrases[k + 1])
           /\ IndexIn(table, phrases[k]) < IndexIn(table, phrases[k + 1])

\* the phrases all of whose occurrences overlap the span claimed by a longer
\* phrase
OnlyInsideClaimed(run, text, phrases) ==
  {k \in 1..Len(phrases) :
     /\ Occurrences(phrases[k], text) # {}
     /\ \A i \in Occurrences(phrases[k], text) :
           \E c \in 1..Len(run.found) :
              /\ Len(run.found[c]) > Len(phrases[k])
              /\ Overlaps(SpanOf(phrases[k], i), <<run.occupied_spans[c]>>)}

\* the metrics reported are in the order of the phrases
InOrderOf(metrics, phrases) ==
  \A i \in 1..Len(metrics) : \A j \in 1..Len(metrics) :
     i < j => IndexIn(phrases, metrics[i]) < IndexIn(phrases, metrics[j])

LongestPreferred(run, text, phrases, metrics) ==
  /\ InOrderOf(metrics, phrases)
  /\ \A k \in OnlyInsideClaimed(run, text, phrases) :
        phrases[k] \notin Range(metrics)

\* C20 amended: the phrases are tried by decreasing length, equal lengths in
\* table order, and are reported in that order; a phrase all of whose
\* occurrences overlap the one span claimed by a longer phrase is not
\* reported.  A longer phrase claims its first free occurrence only, so a
\* shorter phrase inside a later occurrence of the longer one is reported.
C20_LongestPreferred ==
  /\ LongestFirstOf(metric_phrases[rapidfuzz],
                    IF rapidfuzz THEN FBREF_METRIC_MAP ELSE FALLBACK_METRIC_MAP)
  /\ CompletedText /\ metrics_of[rapidfuzz][Extracted_text] # <<>> =>
       LongestPreferred(metric_spans[rapidfuzz][Extracted_text],
                        normalized[Extracted_text], metric_phrases[rapidfuzz],
                        Elements(outcome.value.metric))

C20_Witness ==
  /\ CompletedOn("expected goals vs expected goals")
  /\ outcome.value.metric = List(<<"expected goals", "goals">>)
  /\ metric_spans[rapidfuzz][Extracted_text].occupied_spans
       = <<<<0, 14>>, <<27, 32>>>>


(***************************************************************************)
(* Properties of the stat type.                                            *)
(***************************************************************************)
StatTypes == {"standard", "keeper", "shooting", "passing", "defense", "possession"}

\* the entries of STAT_TYPE_PATTERNS with a keyword in the text
StatTypeHits(normalized_text) ==
  {k \in 1..Len(STAT_TYPE_PATTERNS) :
     \E j \in 1..Len(STAT_TYPE_PATTERNS[k].patterns) :
        Contains(STAT_TYPE_PATTERNS[k].patterns[j], normalized_text)}

\* the entries of METRIC_TO_STAT_TYPE_HINTS whose token is in the metrics
HintHits(metrics) ==
  {k \in 1..Len(METRIC_TO_STAT_TYPE_HINTS) :
     Contains(METRIC_TO_STAT_TYPE_HINTS[k].token, Lower(JoinWords(metrics)))}

\* the hits of each input text, in each build
stat_type_hits == [text \in Texts |-> StatTypeHits(normalized[text])]

hint_hits ==
  [rf \in BOOLEAN |-> [text \in Texts |-> HintHits(metrics_of[rf][text])]]

\* the stat type by the cascade, for these hits
StatTypeByCascade(hits, hints, stat_type) ==
  IF hits # {} THEN stat_type = STAT_TYPE_PATTERNS[Least(hits)].label
  ELSE IF hints # {} THEN stat_type = METRIC_TO_STAT_TYPE_HINTS[Least(hints)].stat_type
  ELSE stat_type = "standard"

\* C21: when a keyword of STAT_TYPE_PATTERNS is in the text, stat_type is
\* the first entry of the table, in the order keeper, shooting, passing,
\* defense, possession, with a keyword in the text, whatever the metrics;
\* when none is, it is the stat type of the first hint of
\* METRIC_TO_STAT_TYPE_HINTS found in the joined metric phrases; when there
\* is no hint either it is "standard".  It is always one of the six types.
C21_StatTypeCascade ==
  /\ [k \in 1..Len(STAT_TYPE_PATTERNS) |-> STAT_TYPE_PATTERNS[k].label]
       = <<"keeper", "shooting", "passing", "defense", "possession">>
  /\ Completed =>
       /\ IsStr(outcome.value.stat_type)
       /\ Elements(outcome.value.stat_type)[1] \in StatTypes
  /\ CompletedText =>
       StatTypeByCascade(stat_type_hits[Extracted_text],
                         hint_hits[rapidfuzz][Extracted_text],
                         Elements(outcome.value.stat_type)[1])

C21_Witness ==
  /\ CompletedOn("shots and saves")
  /\ outcome.value.metric = List(<<"shots", "saves">>)
  /\ METRIC_TO_STAT_TYPE_HINTS[Least(HintHits(<<"shots", "saves">>))].stat_type = "shooting"
  /\ outcome.value.stat_type = Str("keeper")

(***************************************************************************)
(* Properties of the season cascade.                                       *)
(***************************************************************************)
\* which of the five rules match: the range, the year, "this season",
\* "last season", "last/past N seasons"
SeasonRules(prompt, normalized_text) ==
  (IF RangeMatches(prompt, 1) # <<>> THEN {1} ELSE {})
    \cup (IF YearMatches(prompt) # <<>> THEN {2} ELSE {})
    \cup (IF Contains("this season", normalized_text) THEN {3} ELSE {})
    \cup (IF Contains("last season", normalized_text) THEN {4} ELSE {})
    \cup (IF \E i \in 1..Len(normalized_text) : SpanAt(normalized_text, i) # <<0, 0>>
          THEN {5} ELSE {})

\* the digits N of the first "last/past N seasons" of the text
SpanDigits(normalized_text) ==
  SubSeq(normalized_text,
         SpanAt(normalized_text,
                Least({i \in 1..Len(normalized_text) :
                         SpanAt(normalized_text, i) # <<0, 0>>}))[1],
         SpanAt(normalized_text,
                Least({i \in 1..Len(normalized_text) :
                         SpanAt(normalized_text, i) # <<0, 0>>}))[2])

\* what one rule gives for the text
SeasonOfRule(rule, prompt, normalized_text) ==
  CASE rule = 1 -> FirstOrList(CompactRanges(RangeMatches(prompt, 1)))
    [] rule = 2 -> FirstOrList(CompactYears(YearMatches(prompt)))
    [] rule = 3 -> Str("2324")
    [] rule = 4 -> Str("2223")
    [] rule = 5 -> SpanSeasons(SpanDigits(normalized_text)).value

\* what the first of the matching rules gives, null when none matches
SeasonByPriority(matching, prompt, normalized_text) ==
  IF matching = {} THEN None
  ELSE SeasonOfRule(Least(matching), prompt, normalized_text)

\* the matching rules and the season by priority of each input text
season_rules == [text \in Texts |-> SeasonRules(text, normalized[text])]

season_by_priority ==
  [text \in Texts |->
     SeasonByPriority(season_rules[text], text, normalized[text])]

\* C22: the season of a descriptor is what the first matching rule gives, in
\* the order range, year, "this season", "last season", "last/past N
\* seasons"; the rules after it contribute nothing; it is null when no rule
\* matches.
C22_SeasonCascade ==
  CompletedText =>
    outcome.value.season = season_by_priority[Extracted_text]

C22_Witness ==
  /\ CompletedOn("this season last season past 2 seasons")
  /\ season_rules[Extracted_text] = {3, 4, 5}
  /\ outcome.value.season = Str("2324")

\* M = max(N, 1) of the first "last/past N seasons" of the text
SpanCount(normalized_text) == Max(ParseInt(SpanDigits(normalized_text)), 1)

\* the codes of the count years up to 2023, the oldest first
ConsecutiveCodes(count, codes) ==
  /\ Len(codes) = count
  /\ \A k \in 1..count : codes[k] = TwoDigits((2023 - count + k) % 100)
  /\ codes[count] = "23"

\* C23: for a text that matches only the rule "last/past N seasons", with
\* M = max(N, 1), the season of the descriptor is the list of the M
\* two-digit codes of the years 2023-M+1 .. 2023, the oldest first, and the
\* scalar "23" when M = 1; for "Liverpool possession stats past 5 seasons"
\* it is ["19","20","21","22","23"], with team "Liverpool" and stat_type
\* "possession".
C23_RelativeSpan ==
  /\ CompletedText /\ season_rules[Extracted_text] = {5} =>
       /\ ConsecutiveCodes(SpanCount(normalized[Extracted_text]),
                           Elements(outcome.value.season))
       /\ IsStr(outcome.value.season) <=> SpanCount(normalized[Extracted_text]) = 1
  /\ CompletedOn("Liverpool possession stats past 5 seasons") =>
       /\ outcome.value.season = List(<<"19", "20", "21", "22", "23">>)
       /\ outcome.value.team = Str("Liverpool")
       /\ outcome.value.stat_type = Str("possession")

C23_Witness ==
  /\ CompletedOn("Liverpool possession stats past 5 seasons")
  /\ season_rules[Extracted_text] = {5}
  /\ SpanCount(normalized[Extracted_text]) = 5
  /\ outcome.value.stat_type = Str("possession")
  /\ Len(Elements(outcome.value.season)) = 5

(***************************************************************************)
(* Properties of the metric type and of the chart type.                    *)
(***************************************************************************)
\* one of the comparison keywords is a word of the text
ComparisonKeyword(normalized_text) ==
  \E keyword \in {"vs", "versus", "against", "compare"} :
     SearchWord(keyword, normalized_text)

\* the metric type by the decision table, the first matching rule winning
MetricTypeByTable(compared, teams, players, league, table, metric_type) ==
  IF Len(teams) >= 2 /\ compared THEN metric_type = Str("match")
  ELSE IF Len(players) > 0 THEN metric_type = Str("player")
  ELSE IF Len(teams) > 0 THEN metric_type = Str("team")
  ELSE IF ~IsNone(league) \/ table THEN metric_type = Str("league")
  ELSE IsNone(metric_type)

\* the league resolved from the text or from the teams, before the default
\* league is filled in
ResolvedLeague(text, teams) ==
  Or(league_of[text], _infer_league_from_teams(teams))

\* C24 as stated: with two teams or more and a comparison keyword (vs,
\* versus, against, compare) in the text metric_type is "match"; otherwise
\* it is "player" with a player, otherwise "team" with a team, otherwise
\* "league" with a resolved league or the keyword standings or table,
\* otherwise null.
C24_DecisionTable ==
  CompletedText =>
    MetricTypeByTable(ComparisonKeyword(normalized[Extracted_text]),
                      Elements(outcome.value.team),
                      Elements(outcome.value.player),
                      ResolvedLeague(Extracted_text, Elements(outcome.value.team)),
                      \/ Contains("standings", normalized[Extracted_text])
                      \/ Contains("table", normalized[Extracted_text]),
                      outcome.value.metric_type)

\* the entries of CHART_PATTERNS with a keyword in the text
ChartHits(normalized_text) ==
  {k \in 1..Len(CHART_PATTERNS) :
     \E j \in 1..Len(CHART_PATTERNS[k].patterns) :
        Contains(CHART_PATTERNS[k].patterns[j], normalized_text)}

\* the hits of each input text
chart_hits == [text \in Texts |-> ChartHits(normalized[text])]

\* the chart type by the explicit pass and the default pass
ChartByRule(hits, metric_type, metric, chart_type) ==
  IF hits # {} THEN chart_type = Str(CHART_PATTERNS[Least(hits)].label)
  ELSE IF /\ metric_type \in {Str("team"), Str("player"), Str("match")}
          /\ IsList(metric)
          /\ Len(Elements(metric)) > 1
  THEN chart_type = Str("bar")
  ELSE chart_type = Str("table")

\* C25: with a keyword of CHART_PATTERNS in the text chart_type is the first
\* entry, in the order bar, line, scatter, pie, table, heatmap, radar, with
\* a keyword in the text; with none it is "bar" when metric_type is team,
\* player or match and the metric after the backfill is a list of more than
\* one element, and "table" otherwise; it is never null for a text.
C25_ChartType ==
  /\ [k \in 1..Len(CHART_PATTERNS) |-> CHART_PATTERNS[k].label]
       = <<"bar", "line", "scatter", "pie", "table", "heatmap", "radar">>
  /\ CompletedText =>
       /\ ~IsNone(outcome.value.chart_type)
       /\ ChartByRule(chart_hits[Extracted_text],
                      outcome.value.metric_type, outcome.value.metric,
                      outcome.value.chart_type)

C25_Witness ==
  /\ CompletedOn("Arsenal")
  /\ chart_hits[Extracted_text] = {}
  /\ outcome.value.metric_type = Str("team")
  /\ Len(Elements(outcome.value.metric)) = 3
  /\ outcome.value.chart_type = Str("bar")

\* the texts without a metric phrase whose stat type is this one
BackfilledTexts(rf, stat_type) ==
  {text \in Texts : metrics_of[rf][text] = <<>> /\ stat_type_of[rf][text] = stat_type}

\* the stat types that have a text without a metric phrase, in each build
BackfilledTypes ==
  [rf \in BOOLEAN |->
     {stat_type \in StatTypes : BackfilledTexts(rf, stat_type) # {}}]

\* C26 as stated: for each of the six stat types there is a text without a
\* metric phrase whose stat type it is, and the descriptor of such a text
\* holds the list of DEFAULT_METRICS of that type; no descriptor holds
\* ["all"].
C26_Original ==
  /\ BackfilledTypes[rapidfuzz] = StatTypes
  /\ Completed => outcome.value.metric # List(<<"all">>)

\* the keywords of a stat type in STAT_TYPE_PATTERNS
KeywordsOf(stat_type) ==
  UNION {Range(STAT_TYPE_PATTERNS[k].patterns) :
           k \in {j \in 1..Len(STAT_TYPE_PATTERNS) :
                    STAT_TYPE_PATTERNS[j].label = stat_type}}

\* the phrases of the lexicon as they are searched for
SearchedPhrases(rf) ==
  {Strip(Lower(metric_phrases[rf][k]), SpaceChars) : k \in 1..Len(metric_phrases[rf])}

\* the stat types with a keyword that is no phrase of the lexicon, in each
\* build
FreeKeywordTypes ==
  [rf \in BOOLEAN |->
     {stat_type \in StatTypes : KeywordsOf(stat_type) \ SearchedPhrases(rf) # {}}]

\* C26 amended: for each of standard, keeper, shooting, passing and defense
\* there is a text without a metric phrase whose stat type it is, and the
\* descriptor of such a text holds the list of DEFAULT_METRICS of that type;
\* for possession there is such a text only with the fallback lexicon: in
\* the lexicon of FBREF_METRIC_MAP every keyword of possession is itself a
\* metric phrase, so a text that resolves to possession has a metric.  No
\* descriptor holds ["all"].
C26_BackfillTypes ==
  /\ StatTypes \ {"possession"} \subseteq BackfilledTypes[rapidfuzz]
  /\ "possession" \in BackfilledTypes[rapidfuzz] <=> ~rapidfuzz
  /\ "possession" \in FreeKeywordTypes[rapidfuzz] <=> ~rapidfuzz
  /\ Completed => outcome.value.metric # List(<<"all">>)
  /\ CompletedText /\ metrics_of[rapidfuzz][Extracted_text] = <<>> =>
       /\ outcome.value.metric = List(LiteralDefaults[Elements(outcome.value.stat_type)[1]])
       /\ rapidfuzz => outcome.value.stat_type # Str("possession")

C26_Witness ==
  /\ CompletedOn("carries")
  /\ rapidfuzz
  /\ outcome.value.stat_type = Str("possession")
  /\ outcome.value.metric = Str("carries")

\* C27 as stated: a text that contains "women's world cup" resolves to the
\* league "INT-Women's World Cup".
C27_WomensWorldCup ==
  CompletedText /\ Contains("women's world cup", normalized[Extracted_text]) =>
    outcome.value.league = Str("INT-Women's World Cup")

(***************************************************************************)
(* Properties across the fields.                                           *)
(***************************************************************************)
\* C28: in every descriptor, metric_type "match" comes with a team list of
\* two names or more, "player" with a player, "team" with a team and no
\* player, "league" and null with neither team nor player; so a descriptor
\* routed to get_team_stats has a team.
C28_CrossField ==
  Completed =>
    /\ outcome.value.metric_type \in
         {Str("match"), Str("player"), Str("team"), Str("league"), None}
    /\ outcome.value.metric_type = Str("match") =>
         IsList(outcome.value.team) /\ Len(Elements(outcome.value.team)) >= 2
    /\ outcome.value.metric_type = Str("player") => ~IsNone(outcome.value.player)
    /\ outcome.value.metric_type = Str("team") =>
         ~IsNone(outcome.value.team) /\ IsNone(outcome.value.player)
    /\ outcome.value.metric_type \in {Str("league"), None} =>
         IsNone(outcome.value.team) /\ IsNone(outcome.value.player)
    /\ fetch_data(outcome.value) = "get_team_stats" => ~IsNone(outcome.value.team)

C28_Witness ==
  /\ CompletedOn("Compare Messi and Ronaldo at Arsenal")
  /\ outcome.value.team = Str("Arsenal")
  /\ outcome.value.metric_type = Str("team")
  /\ IsNone(outcome.value.player)
  /\ fetch_data(outcome.value) = "get_team_stats"

LeagueLabels == {LEAGUE_PATTERNS[k].label : k \in 1..Len(LEAGUE_PATTERNS)}

\* the teams the extractor can return: the names of the registry and the
\* canonical names of the aliases
ExtractableTeams ==
  Range(team_names) \cup {TEAM_ALIASES[k].canonical : k \in 1..Len(TEAM_ALIASES)}

TeamsWithoutLeague ==
  {team \in ExtractableTeams : IsNone(_infer_league_from_teams(<<team>>))}

\* C29: the league of a descriptor is never null and is one of the nine
\* labels of LEAGUE_PATTERNS: the league resolved from the text or from the
\* teams, else "Big 5 European Leagues Combined"; every team the extractor
\* can return has a known league, so no league is resolved only when no
\* keyword is in the text and no team was extracted.
C29_LeagueNeverNull ==
  /\ Cardinality(LeagueLabels) = 9
  /\ TeamsWithoutLeague = {}
  /\ Completed =>
       /\ IsStr(outcome.value.league)
       /\ Elements(outcome.value.league)[1] \in LeagueLabels
  /\ CompletedText =>
       /\ outcome.value.league =
            Or(ResolvedLeague(Extracted_text, Elements(outcome.value.team)),
               Str("Big 5 European Leagues Combined"))
       /\ IsNone(ResolvedLeague(Extracted_text, Elements(outcome.value.team))) <=>
            /\ league_hits[Extracted_text] = {}
            /\ IsNone(outcome.value.team)

C29_Witness ==
  /\ CompletedOn("Lionel Messi goals last season")
  /\ IsNone(ResolvedLeague(Extracted_text, Elements(outcome.value.team)))
  /\ IsNone(outcome.value.team)
  /\ outcome.value.league = Str("Big 5 European Leagues Combined")

\* C30: a descriptor whose metric_type is "match" and whose text contains
\* "compare", " vs " or " versus " has chart_type "bar", whatever other
\* chart keywords the text holds; a "match" with another chart_type has
\* " against " in its text.
C30_ComparisonBars ==
  CompletedText /\ outcome.value.metric_type = Str("match") =>
    /\ \/ Contains("compare", normalized[Extracted_text])
       \/ Contains(" vs ", normalized[Extracted_text])
       \/ Contains(" versus ", normalized[Extracted_text])
       => outcome.value.chart_type = Str("bar")
    /\ outcome.value.chart_type # Str("bar") =>
         Contains(" against ", normalized[Extracted_text])

C30_Witness ==
  /\ CompletedOn("Compare Arsenal and Chelsea trend table")
  /\ {CHART_PATTERNS[k].label : k \in chart_hits[Extracted_text]}
       = {"bar", "line", "table"}
  /\ outcome.value.metric_type = Str("match")
  /\ outcome.value.chart_type = Str("bar")
====
